---- MODULE Spec2Model ----
(***************************************************************************)
(* MediLens: a four-stage diagnostic pipeline (Analysis, Reasoning,        *)
(* Critique, Report) run by a graph executor over one shared state dict,   *)
(* and the text extraction the Analysis stage applies to the vision        *)
(* model's answer.                                                         *)
(*                                                                         *)
(* Conventions.                                                            *)
(*  - A Python str is a sequence of one-character strings, so that         *)
(*    lower(), upper(), strip(), split(), "in" and the regular expressions *)
(*    are computed character by character.                                 *)
(*  - A float that the code obtains as score / 10.0 is held in tenths:     *)
(*    the integer 8 stands for 0.8, 10 for 1.0, 7 for the default 0.7.     *)
(*  - A Python dict is a function whose DOMAIN is the set of keys present. *)
(*  - The model covers a configured installation: the OpenAI API key is    *)
(*    set, so the agents' constructors return; and the image file stays    *)
(*    readable between validate_medical_image and encode_image.            *)
(*  - Texts stay below the 4300 digits at which int() itself refuses a     *)
(*    digit string.                                                        *)
(***************************************************************************)
EXTENDS Integers, Sequences, FiniteSets, TLC

VARIABLES
    state,        \* the MediLensState dict threaded through the nodes
    node_status,  \* per graph node: "idle", "invoking" (inside llm.invoke), "resumed"
                  \* (llm.invoke came back), "done" or "raised"
    runs,         \* per graph node: how many times the executor has started it
    frontier,     \* the nodes the executor has scheduled for the current step
    run_status,   \* ainvoke: "running", "returned" (final state handed back) or "raised";
                  \* "idle" when no run was started
    raised,       \* the exception that ended the run: "none", "ValueError", "NameError"
    calls,        \* the inference service's log: one record per llm.invoke, in order
    frame,        \* per graph node: its locals between llm.invoke and its return
    arg,          \* the stub the run's llm is replaced by, if any; or the argument of
                  \* a function that is applied on its own
    ret,          \* what each of those applications gave back, in order
    peer,         \* a second run of the pipeline going on at the same time, if any:
                  \* its state, node_status, runs, frontier, run_status, raised, calls,
                  \* frame and arg while the other run is the one that executes
    batch         \* the CLI's batch over a folder, if there is one: the images found,
                  \* the position of the loop, the images a run was started for and
                  \* the reports written

vars == <<state, node_status, runs, frontier, run_status, raised, calls, frame, arg, ret, peer, batch>>

(***************************************************************************)
(* Python str operations                                                   *)
(***************************************************************************)

Whitespace == {" ", "\n", "\t"}

DigitChars == <<"0", "1", "2", "3", "4", "5", "6", "7", "8", "9">>

UpperLetters == <<"A","B","C","D","E","F","G","H","I","J","K","L","M",
                  "N","O","P","Q","R","S","T","U","V","W","X","Y","Z">>

LowerLetters == <<"a","b","c","d","e","f","g","h","i","j","k","l","m",
                  "n","o","p","q","r","s","t","u","v","w","x","y","z">>

IsDigit(c) == \E i \in 1..Len(DigitChars) : DigitChars[i] = c

DigitVal(c) == (CHOOSE i \in 1..Len(DigitChars) : DigitChars[i] = c) - 1

MinOf(S) == CHOOSE m \in S : \A n \in S : m <= n

lower(s) ==
    [i \in 1..Len(s) |->
        IF \E k \in 1..Len(UpperLetters) : UpperLetters[k] = s[i]
        THEN LowerLetters[CHOOSE k \in 1..Len(UpperLetters) : UpperLetters[k] = s[i]]
        ELSE s[i]]

upper(s) ==
    [i \in 1..Len(s) |->
        IF \E k \in 1..Len(LowerLetters) : LowerLetters[k] = s[i]
        THEN UpperLetters[CHOOSE k \in 1..Len(LowerLetters) : LowerLetters[k] = s[i]]
        ELSE s[i]]

\* s[i:].startswith(p), i counted from 1
StartsWithAt(s, i, p) ==
    /\ i + Len(p) - 1 <= Len(s)
    /\ \A k \in 1..Len(p) : s[i + k - 1] = p[k]

startswith(s, p) == StartsWithAt(s, 1, p)

\* sub in s
In(sub, s) == \E i \in 1..(Len(s) + 1) : StartsWithAt(s, i, sub)

\* s.strip()
strip(s) ==
    LET Keep == {i \in 1..Len(s) : s[i] \notin Whitespace}
    IN  IF Keep = {} THEN <<>>
        ELSE SubSeq(s, MinOf(Keep), CHOOSE m \in Keep : \A n \in Keep : n <= m)

\* s.split(sep) for a one-character sep: always at least one piece
RECURSIVE split(_, _)
split(s, sep) ==
    LET At == {i \in 1..Len(s) : s[i] = sep}
    IN  IF At = {} THEN <<s>>
        ELSE <<SubSeq(s, 1, MinOf(At) - 1)>> \o split(SubSeq(s, MinOf(At) + 1, Len(s)), sep)

\* int(d) for a run of decimal digits
RECURSIVE int(_)
int(d) == IF d = <<>> THEN 0 ELSE 10 * int(SubSeq(d, 1, Len(d) - 1)) + DigitVal(d[Len(d)])

\* sep.join(parts)
RECURSIVE join(_, _)
join(sep, parts) ==
    IF parts = <<>> THEN <<>>
    ELSE IF Len(parts) = 1 THEN parts[1]
    ELSE parts[1] \o sep \o join(sep, Tail(parts))

(***************************************************************************)
(* Regular expressions of _extract_confidence_score                        *)
(***************************************************************************)

\* The index after the longest run of characters of class C that starts at j.
RunEnd(s, j, C) ==
    LET Stop == {k \in j..Len(s) : s[k] \notin C}
    IN  IF Stop = {} THEN Len(s) + 1 ELSE MinOf(Stop)

DigitSet == {DigitChars[i] : i \in 1..Len(DigitChars)}

NoMatch == [matched |-> FALSE, group1 |-> <<>>]

W_confidence == <<"c","o","n","f","i","d","e","n","c","e">>
W_certainty == <<"c","e","r","t","a","i","n","t","y">>
W_out_of == <<"o","u","t"," ","o","f">>
W_slash == <<"/">>
W_10 == <<"1","0">>

\* re.search(word + r'[:\s]+(\d+)[/\s]*(?:10)?', s): the leftmost place where
\* the word is followed by at least one of ":" and whitespace and then a digit;
\* group 1 is the whole digit run (what follows it may match empty).
SearchWordScore(word, s) ==
    LET n == Len(word)
        DigitsAt(i) == RunEnd(s, i + n, {":"} \cup Whitespace)
        Starts == {i \in 1..Len(s) :
                      /\ StartsWithAt(s, i, word)
                      /\ DigitsAt(i) > i + n
                      /\ DigitsAt(i) <= Len(s)
                      /\ IsDigit(s[DigitsAt(i)])}
    IN  IF Starts = {} THEN NoMatch
        ELSE LET k == DigitsAt(MinOf(Starts))
             IN  [matched |-> TRUE, group1 |-> SubSeq(s, k, RunEnd(s, k, DigitSet) - 1)]

\* re.search(r'confidence.*?(\d+).*?(?:out of|/)\s*10', s): "." does not match
\* a newline, so the word, the first digit run after it and the separator
\* ("out of" or "/") lie on one line; \s* may cross lines before the "10".
\* Group 1 is the first digit run after the word, taken whole: the separator
\* cannot start inside it.
SearchConfidenceOutOf(s) ==
    LET n == Len(W_confidence)
        FirstDigit(i) == RunEnd(s, i + n, {c \in {s[k] : k \in 1..Len(s)} : ~IsDigit(c) /\ c # "\n"})
        AfterDigits(i) == RunEnd(s, FirstDigit(i), DigitSet)
        LineEnd(i) == RunEnd(s, AfterDigits(i), {c \in {s[k] : k \in 1..Len(s)} : c # "\n"})
        Tail10(i) == \E q \in AfterDigits(i)..(LineEnd(i) - 1) : \E sep \in {W_out_of, W_slash} :
                        /\ StartsWithAt(s, q, sep)
                        /\ StartsWithAt(s, RunEnd(s, q + Len(sep), Whitespace), W_10)
        Starts == {i \in 1..Len(s) :
                      /\ StartsWithAt(s, i, W_confidence)
                      /\ FirstDigit(i) <= Len(s)
                      /\ IsDigit(s[FirstDigit(i)])
                      /\ Tail10(i)}
    IN  IF Starts = {} THEN NoMatch
        ELSE LET i == MinOf(Starts)
             IN  [matched |-> TRUE, group1 |-> SubSeq(s, FirstDigit(i), AfterDigits(i) - 1)]

\* confidence_patterns, in list order
confidence_patterns == <<"confidence_score", "certainty_score", "confidence_out_of_10">>

re_search(pattern, s) ==
    CASE pattern = "confidence_score" -> SearchWordScore(W_confidence, s)
      [] pattern = "certainty_score" -> SearchWordScore(W_certainty, s)
      [] pattern = "confidence_out_of_10" -> SearchConfidenceOutOf(s)

\* 1.0 and the default 0.7, in tenths
MaxConfidence == 10
DefaultConfidence == 7

Min2(a, b) == IF a <= b THEN a ELSE b

\* What a call gives back: the value it returns, or the exception it raises.
Return(v) == [raised |-> "none", value |-> v]
Raise(exc) == [raised |-> exc, value |-> <<>>]

\* The decimal digits of 2^1024 - 2^970, the least int that is too large to
\* convert to float: the conversion rounds to nearest, and every int below
\* this one rounds to a float.
FloatLimitDigits ==
    << "1","7","9","7","6","9","3","1","3","4","8","6","2","3","1","5","8","0","7","9",
       "3","7","2","8","9","7","1","4","0","5","3","0","3","4","1","5","0","7","9","9",
       "3","4","1","3","2","7","1","0","0","3","7","8","2","6","9","3","6","1","7","3",
       "7","7","8","9","8","0","4","4","4","9","6","8","2","9","2","7","6","4","7","5",
       "0","9","4","6","6","4","9","0","1","7","9","7","7","5","8","7","2","0","7","0",
       "9","6","3","3","0","2","8","6","4","1","6","6","9","2","8","8","7","9","1","0",
       "9","4","6","5","5","5","5","4","7","8","5","1","9","4","0","4","0","2","6","3",
       "0","6","5","7","4","8","8","6","7","1","5","0","5","8","2","0","6","8","1","9",
       "0","8","9","0","2","0","0","0","7","0","8","3","8","3","6","7","6","2","7","3",
       "8","5","4","8","4","5","8","1","7","7","1","1","5","3","1","7","6","4","4","7",
       "5","7","3","0","2","7","0","0","6","9","8","5","5","5","7","1","3","6","6","9",
       "5","9","6","2","2","8","4","2","9","1","4","8","1","9","8","6","0","8","3","4",
       "9","3","6","4","7","5","2","9","2","7","1","9","0","7","4","1","6","8","4","4",
       "4","3","6","5","5","1","0","7","0","4","3","4","2","7","1","1","5","5","9","6",
       "9","9","5","0","8","0","9","3","0","4","2","8","8","0","1","7","7","9","0","4",
       "1","7","4","4","9","7","7","9","2" >>

\* A digit string without its leading zeros.
Significant(digits) ==
    LET NonZero == {i \in 1..Len(digits) : digits[i] # "0"}
    IN  IF NonZero = {} THEN <<>> ELSE SubSeq(digits, MinOf(NonZero), Len(digits))

\* a >= b, for digit strings of one length
DigitsGeq(a, b) ==
    LET Differ == {i \in 1..Len(a) : a[i] # b[i]}
    IN  Differ = {} \/ DigitVal(a[MinOf(Differ)]) > DigitVal(b[MinOf(Differ)])

\* Whether int(digits) is at least the float limit.
TooLargeForFloat(digits) ==
    \E sig \in {Significant(digits)} :
        \/ Len(sig) > Len(FloatLimitDigits)
        \/ Len(sig) = Len(FloatLimitDigits) /\ DigitsGeq(sig, FloatLimitDigits)

\* score = int(match.group(1)); return min(score / 10.0, 1.0), in tenths.
\* The division converts score to float and raises OverflowError when it is
\* too large.  An int of more than nine digits stands as 10^9 here: both are
\* above 1.0 after the division.
NormalizedScore(digits) ==
    IF TooLargeForFloat(digits) THEN Raise("OverflowError")
    ELSE LET sig == Significant(digits)
         IN  Return(Min2(IF Len(sig) > 9 THEN 1000000000 ELSE int(sig), MaxConfidence))

\* for pattern in confidence_patterns: ... return min(score / 10.0, 1.0)
RECURSIVE ConfidenceLoop(_, _)
ConfidenceLoop(s, i) ==
    IF i > Len(confidence_patterns) THEN Return(DefaultConfidence)
    ELSE LET match == re_search(confidence_patterns[i], s)
         IN  IF match.matched THEN NormalizedScore(match.group1)
             ELSE ConfidenceLoop(s, i + 1)

_extract_confidence_score(response_content) == ConfidenceLoop(lower(response_content), 1)

(***************************************************************************)
(* Section classifier: _parse_analysis_response                            *)
(***************************************************************************)

SectionKeys == {"visual_findings", "anatomical_assessment", "abnormal_findings",
                "differential_diagnosis", "technical_quality", "recommendations"}

H_VISUAL_ANALYSIS == <<"V","I","S","U","A","L"," ","A","N","A","L","Y","S","I","S">>
H_FINDINGS == <<"F","I","N","D","I","N","G","S">>
H_MORPHOLOGICAL == <<"M","O","R","P","H","O","L","O","G","I","C","A","L">>
H_ASSESSMENT == <<"A","S","S","E","S","S","M","E","N","T">>
H_DIFFERENTIAL == <<"D","I","F","F","E","R","E","N","T","I","A","L">>
H_DIAGNOSIS == <<"D","I","A","G","N","O","S","I","S">>
H_TECHNICAL == <<"T","E","C","H","N","I","C","A","L">>
H_QUALITY == <<"Q","U","A","L","I","T","Y">>
H_RECOMMEND == <<"R","E","C","O","M","M","E","N","D">>
H_FOLLOW == <<"F","O","L","L","O","W">>

\* A chain in which the DIFFERENTIAL / DIAGNOSIS branch selects abnormal_findings.
SectionHeaders_abnormal ==
    << [markers |-> {H_VISUAL_ANALYSIS, H_FINDINGS}, section |-> "visual_findings"],
       [markers |-> {H_MORPHOLOGICAL, H_ASSESSMENT}, section |-> "anatomical_assessment"],
       [markers |-> {H_DIFFERENTIAL, H_DIAGNOSIS}, section |-> "abnormal_findings"],
       [markers |-> {H_TECHNICAL, H_QUALITY}, section |-> "technical_quality"],
       [markers |-> {H_RECOMMEND, H_FOLLOW}, section |-> "recommendations"] >>

\* The chain with the test for the differential section moved to the front.
SectionHeaders_differential_first ==
    << [markers |-> {H_DIFFERENTIAL, H_DIAGNOSIS}, section |-> "differential_diagnosis"],
       [markers |-> {H_VISUAL_ANALYSIS, H_FINDINGS}, section |-> "visual_findings"],
       [markers |-> {H_MORPHOLOGICAL, H_ASSESSMENT}, section |-> "anatomical_assessment"],
       [markers |-> {H_TECHNICAL, H_QUALITY}, section |-> "technical_quality"],
       [markers |-> {H_RECOMMEND, H_FOLLOW}, section |-> "recommendations"] >>

\* The if / elif chain of header tests, in its order.
SectionHeaders ==
    << [markers |-> {H_VISUAL_ANALYSIS, H_FINDINGS}, section |-> "visual_findings"],
       [markers |-> {H_MORPHOLOGICAL, H_ASSESSMENT}, section |-> "anatomical_assessment"],
       [markers |-> {H_DIFFERENTIAL, H_DIAGNOSIS}, section |-> "differential_diagnosis"],
       [markers |-> {H_TECHNICAL, H_QUALITY}, section |-> "technical_quality"],
       [markers |-> {H_RECOMMEND, H_FOLLOW}, section |-> "recommendations"] >>

\* The branches of the chain whose test the (stripped) line passes.
HeaderHits(line) ==
    {h \in 1..Len(SectionHeaders) : \E m \in SectionHeaders[h].markers : In(m, upper(line))}

\* The loop with header lines that are also stored, in the section they select.
RECURSIVE ParseLines_stores_headers(_, _, _, _)
ParseLines_stores_headers(lines, i, sections, current_section) ==
    IF i > Len(lines) THEN sections
    ELSE LET line == strip(lines[i])
             section == IF HeaderHits(line) # {}
                        THEN SectionHeaders[MinOf(HeaderHits(line))].section
                        ELSE current_section
         IN  IF line = <<>>
             THEN ParseLines_stores_headers(lines, i + 1, sections, current_section)
             ELSE ParseLines_stores_headers(lines, i + 1,
                                  [sections EXCEPT ![section] = @ \o line \o <<"\n">>],
                                  section)

\* The loop with header lines that leave the cursor where it was.
RECURSIVE ParseLines_keeps_cursor(_, _, _, _)
ParseLines_keeps_cursor(lines, i, sections, current_section) ==
    IF i > Len(lines) THEN sections
    ELSE LET line == strip(lines[i])
         IN  IF line = <<>> \/ HeaderHits(line) # {}
             THEN ParseLines_keeps_cursor(lines, i + 1, sections, current_section)
             ELSE ParseLines_keeps_cursor(lines, i + 1,
                                  [sections EXCEPT ![current_section] = @ \o line \o <<"\n">>],
                                  current_section)

RECURSIVE ParseLines(_, _, _, _)
ParseLines(lines, i, sections, current_section) ==
    IF i > Len(lines) THEN sections
    ELSE LET line == strip(lines[i])
         IN  IF line = <<>> THEN ParseLines(lines, i + 1, sections, current_section)
             ELSE IF HeaderHits(line) # {}
                  THEN ParseLines(lines, i + 1, sections,
                                  SectionHeaders[MinOf(HeaderHits(line))].section)
                  ELSE ParseLines(lines, i + 1,
                                  [sections EXCEPT ![current_section] = @ \o line \o <<"\n">>],
                                  current_section)

\* The loop over the lines, then "for key in sections: sections[key] = sections[key].strip()".
_parse_analysis_response(response_content) ==
    CHOOSE cleaned \in
        {[k \in SectionKeys |-> strip(sections[k])] :
            sections \in {ParseLines(split(response_content, "\n"), 1,
                                     [k \in SectionKeys |-> <<>>], "visual_findings")}} : TRUE

(***************************************************************************)
(* Field extractors of get_structured_findings                             *)
(***************************************************************************)

V_xray == <<"x","-","r","a","y">>
V_ct == <<"c","t">>
V_mri == <<"m","r","i">>
V_ultrasound == <<"u","l","t","r","a","s","o","u","n","d">>
V_mammography == <<"m","a","m","m","o","g","r","a","p","h","y">>
V_pet == <<"p","e","t">>
V_nuclear == <<"n","u","c","l","e","a","r">>
V_unknown == <<"u","n","k","n","o","w","n">>

V_chest == <<"c","h","e","s","t">>
V_abdomen == <<"a","b","d","o","m","e","n">>
V_pelvis == <<"p","e","l","v","i","s">>
V_head == <<"h","e","a","d">>
V_neck == <<"n","e","c","k">>
V_spine == <<"s","p","i","n","e">>
V_extremity == <<"e","x","t","r","e","m","i","t","y">>
V_heart == <<"h","e","a","r","t">>
V_lung == <<"l","u","n","g">>
V_unspecified == <<"u","n","s","p","e","c","i","f","i","e","d">>

modalities == <<V_xray, V_ct, V_mri, V_ultrasound, V_mammography, V_pet, V_nuclear>>

regions == <<V_chest, V_abdomen, V_pelvis, V_head, V_neck, V_spine, V_extremity, V_heart, V_lung>>

\* The term that comes first in the text, wherever it is in the list.
FirstTermIn_by_position(terms, text, sentinel) ==
    LET Hits == {i \in 1..Len(terms) : In(terms[i], text)}
        At(i) == MinOf({p \in 1..(Len(text) - Len(terms[i]) + 1) :
                           SubSeq(text, p, p + Len(terms[i]) - 1) = terms[i]})
    IN  IF Hits = {} THEN sentinel
        ELSE terms[CHOOSE i \in Hits : \A k \in Hits : At(i) <= At(k)]

\* for term in terms: if term in text: return term ... return sentinel
FirstTermIn(terms, text, sentinel) ==
    LET Hits == {i \in 1..Len(terms) : In(terms[i], text)}
    IN  IF Hits = {} THEN sentinel ELSE terms[MinOf(Hits)]

_extract_modality(visual_findings) == FirstTermIn(modalities, lower(visual_findings), V_unknown)

_extract_anatomical_region(visual_findings) ==
    FirstTermIn(regions, lower(visual_findings), V_unspecified)

\* The module's namespace has no binding for the name re: the file imports
\* base64, os, typing, langchain, PIL, io and logging, and the only
\* "import re" is local to _extract_confidence_score.  Evaluating re.sub in
\* any other function raises NameError.
re_is_bound == FALSE

\* The one-character string U+2022 (a bullet glyph)
BulletGlyph == "U+2022"

\* re.sub(r'^[\d\.\-\*\(bullet)\s]+', '', line)
re_sub_list_marker(line) ==
    SubSeq(line, RunEnd(line, 1, DigitSet \cup {".", "-", "*", BulletGlyph} \cup Whitespace),
           Len(line))

MaxKeyFindings == 5
MaxDifferentials == 3
MinDifferentialLen == 10

\* The loop shared by _extract_key_findings and _extract_differentials;
\* min_len is the length a cleaned line must exceed (0 for key findings,
\* where the test is only "if clean_line").
RECURSIVE BulletLoop(_, _, _, _)
BulletLoop(lines, i, kept, min_len) ==
    IF i > Len(lines) THEN Return(kept)
    ELSE LET line == strip(lines[i])
         IN  IF line # <<>> /\ ~startswith(line, <<"#">>)
             THEN IF ~re_is_bound THEN Raise("NameError")
                  ELSE LET clean_line == re_sub_list_marker(line)
                       IN  IF clean_line # <<>> /\ Len(clean_line) > min_len
                           THEN BulletLoop(lines, i + 1, Append(kept, clean_line), min_len)
                           ELSE BulletLoop(lines, i + 1, kept, min_len)
             ELSE BulletLoop(lines, i + 1, kept, min_len)

\* r[:n] of a returned list
Truncated(r, n) ==
    IF r.raised # "none" THEN r ELSE Return(SubSeq(r.value, 1, Min2(n, Len(r.value))))

_extract_key_findings(abnormal_findings) ==
    IF abnormal_findings = <<>> THEN Return(<<>>)
    ELSE Truncated(BulletLoop(split(abnormal_findings, "\n"), 1, <<>>, 0), MaxKeyFindings)

_extract_differentials(differential_text) ==
    IF differential_text = <<>> THEN Return(<<>>)
    ELSE Truncated(BulletLoop(split(differential_text, "\n"), 1, <<>>, MinDifferentialLen),
                   MaxDifferentials)

K_normal == <<"n","o","r","m","a","l">>
K_unremarkable == <<"u","n","r","e","m","a","r","k","a","b","l","e">>
K_within_normal_limits == <<"w","i","t","h","i","n"," ","n","o","r","m","a","l"," ","l","i","m","i","t","s">>
K_no_evidence == <<"n","o"," ","e","v","i","d","e","n","c","e">>

normal_keywords == {K_normal, K_unremarkable, K_within_normal_limits, K_no_evidence}

RECURSIVE NormalLoop(_, _)
NormalLoop(lines, i) ==
    IF i > Len(lines) THEN <<>>
    ELSE IF \E keyword \in normal_keywords : In(keyword, lower(lines[i]))
         THEN <<strip(lines[i])>> \o NormalLoop(lines, i + 1)
         ELSE NormalLoop(lines, i + 1)

_extract_normal_findings(visual_findings) == NormalLoop(split(visual_findings, "\n"), 1)

Q_excellent == <<"e","x","c","e","l","l","e","n","t">>
Q_optimal == <<"o","p","t","i","m","a","l">>
Q_high_quality == <<"h","i","g","h"," ","q","u","a","l","i","t","y">>
Q_good == <<"g","o","o","d">>
Q_adequate == <<"a","d","e","q","u","a","t","e">>
Q_satisfactory == <<"s","a","t","i","s","f","a","c","t","o","r","y">>
Q_fair == <<"f","a","i","r">>
Q_moderate == <<"m","o","d","e","r","a","t","e">>
Q_acceptable == <<"a","c","c","e","p","t","a","b","l","e">>
Q_poor == <<"p","o","o","r">>
Q_suboptimal == <<"s","u","b","o","p","t","i","m","a","l">>
Q_limited == <<"l","i","m","i","t","e","d">>
Q_degraded == <<"d","e","g","r","a","d","e","d">>
Q_not_assessed == <<"n","o","t"," ","a","s","s","e","s","s","e","d">>

\* The levels without the keyword "optimal".
quality_indicators_without_optimal ==
    << [quality |-> Q_excellent, keywords |-> {Q_excellent, Q_high_quality}],
       [quality |-> Q_good, keywords |-> {Q_good, Q_adequate, Q_satisfactory}],
       [quality |-> Q_fair, keywords |-> {Q_fair, Q_moderate, Q_acceptable}],
       [quality |-> Q_poor, keywords |-> {Q_poor, Q_suboptimal, Q_limited, Q_degraded}] >>

\* The levels tested from the worst to the best.
quality_indicators_poor_first ==
    << [quality |-> Q_poor, keywords |-> {Q_poor, Q_suboptimal, Q_limited, Q_degraded}],
       [quality |-> Q_fair, keywords |-> {Q_fair, Q_moderate, Q_acceptable}],
       [quality |-> Q_good, keywords |-> {Q_good, Q_adequate, Q_satisfactory}],
       [quality |-> Q_excellent, keywords |-> {Q_excellent, Q_optimal, Q_high_quality}] >>

\* quality_indicators.items(), in the dict literal's insertion order
quality_indicators ==
    << [quality |-> Q_excellent, keywords |-> {Q_excellent, Q_optimal, Q_high_quality}],
       [quality |-> Q_good, keywords |-> {Q_good, Q_adequate, Q_satisfactory}],
       [quality |-> Q_fair, keywords |-> {Q_fair, Q_moderate, Q_acceptable}],
       [quality |-> Q_poor, keywords |-> {Q_poor, Q_suboptimal, Q_limited, Q_degraded}] >>

_assess_image_quality(technical_quality) ==
    LET text_lower == lower(technical_quality)
        Hits == {i \in 1..Len(quality_indicators) :
                    \E keyword \in quality_indicators[i].keywords : In(keyword, text_lower)}
    IN  IF Hits = {} THEN Q_not_assessed ELSE quality_indicators[MinOf(Hits)].quality

E_Analysis_failed == <<"A","n","a","l","y","s","i","s"," ","f","a","i","l","e","d">>

\* dict.get(key, default)
Get(d, key, default) == IF key \in DOMAIN d THEN d[key] ELSE default

\* The dict literal get_structured_findings returns for a successful
\* analysis: its values are evaluated in order, and the first one that
\* raises ends the call.
FindingsRecord(analysis_result) ==
         LET analysis == Get(analysis_result, "analysis", [k \in {} |-> <<>>])
             visual == Get(analysis, "visual_findings", <<>>)
             key_findings == _extract_key_findings(Get(analysis, "abnormal_findings", <<>>))
             differentials == _extract_differentials(Get(analysis, "differential_diagnosis", <<>>))
         IN  IF key_findings.raised # "none" THEN Raise(key_findings.raised)
             ELSE IF differentials.raised # "none" THEN Raise(differentials.raised)
             ELSE Return([modality |-> _extract_modality(visual),
                          anatomical_region |-> _extract_anatomical_region(visual),
                          key_findings |-> key_findings.value,
                          normal_structures |-> _extract_normal_findings(visual),
                          image_quality |-> _assess_image_quality(
                                               Get(analysis, "technical_quality", <<>>)),
                          confidence |-> Get(analysis_result, "confidence_score", DefaultConfidence),
                          differential_diagnoses |-> differentials.value])

\* get_structured_findings without its status check.
get_structured_findings_unchecked(analysis_result) == FindingsRecord(analysis_result)

get_structured_findings(analysis_result) ==
    IF Get(analysis_result, "status", "None") # "success"
    THEN Return([error |-> E_Analysis_failed])
    ELSE FindingsRecord(analysis_result)

(***************************************************************************)
(* Inputs: the files a run may be given, and what the inference service    *)
(* may answer                                                              *)
(***************************************************************************)

\* What Image.open finds at each path: whether the file decodes, and the
\* decoded image's size and format.
Files ==
    [p \in {"chest.jpg", "edge.png", "scan.bmp", "tiny.png", "huge.jpg", "wide.png",
             "short.jpg", "notes.jpg"} |->
        CASE p = "chest.jpg" -> [decodes |-> TRUE, width |-> 512, height |-> 512, format |-> "JPEG"]
          [] p = "edge.png" -> [decodes |-> TRUE, width |-> 100, height |-> 4096, format |-> "PNG"]
          [] p = "scan.bmp" -> [decodes |-> TRUE, width |-> 640, height |-> 480, format |-> "BMP"]
          [] p = "tiny.png" -> [decodes |-> TRUE, width |-> 99, height |-> 512, format |-> "PNG"]
          [] p = "huge.jpg" -> [decodes |-> TRUE, width |-> 512, height |-> 4097, format |-> "JPEG"]
          [] p = "wide.png" -> [decodes |-> TRUE, width |-> 4097, height |-> 512, format |-> "PNG"]
          [] p = "short.jpg" -> [decodes |-> TRUE, width |-> 512, height |-> 99, format |-> "JPEG"]
          [] p = "notes.jpg" -> [decodes |-> FALSE, width |-> 0, height |-> 0, format |-> "none"]]

ImagePaths == DOMAIN Files

ClinicalQueries == {"", "shortness of breath"}

Contexts == {"", "Pulmonary edema often appears with cardiomegaly."}

\* Pieces of an analysis answer; an answer is a concatenation of at most
\* MaxPhrases of them.
Phrases ==
    << <<"C","h","e","s","t"," ","X","-","r","a","y","\n">>,
       <<"D","I","F","F","E","R","E","N","T","I","A","L"," ","D","I","A","G","N","O","S","I","S","\n">>,
       <<"P","n","e","u","m","o","n","i","a"," ","l","i","k","e","l","y","\n">>,
       <<"#"," ","n","o","t","e","\n">>,
       <<"C","o","n","f","i","d","e","n","c","e",":"," ","8">>,
       <<"0","/","1","0","\n">>,
       <<"T","e","c","h","n","i","c","a","l"," ","q","u","a","l","i","t","y","\n">>,
       <<"o","p","t","i","m","a","l"," ","i","m","a","g","e","\n">>,
       <<"N","o"," ","e","v","i","d","e","n","c","e"," ","o","f"," ","m","a","s","s","\n">> >>

MaxPhrases == 2

RECURSIVE Concat(_, _)
Concat(pool, choice) ==
    IF choice = <<>> THEN <<>> ELSE pool[Head(choice)] \o Concat(pool, Tail(choice))

TextsFrom(pool, n) ==
    {Concat(pool, choice) : choice \in UNION {[1..k -> 1..Len(pool)] : k \in 0..n}}

T_Confidence == <<"C","o","n","f","i","d","e","n","c","e",":"," ">>

\* Answers that give a score of 308 or 309 digits: 308 and 309 nines, the
\* float limit, and the int just below it.
LongScoreTexts ==
    {T_Confidence \o digits :
        digits \in {[i \in 1..(Len(FloatLimitDigits) - 1) |-> "9"],
                    [i \in 1..Len(FloatLimitDigits) |-> "9"],
                    FloatLimitDigits,
                    [FloatLimitDigits EXCEPT ![Len(FloatLimitDigits)] = "1"]}}

AnalysisTexts == TextsFrom(Phrases, MaxPhrases) \cup {T_Confidence \o FloatLimitDigits}

\* What the text stages' calls may answer: text with surrounding whitespace,
\* or nothing but whitespace.
ReplyTexts == {<<" ","o","k","\n">>, <<" ">>}

\* str(e) of a failed call
ErrorMessages == {<<"t","i","m","e","o","u","t">>}

\* The outcome of one llm.invoke: it returns response.content or raises.
Outcomes(texts) ==
    {[ok |-> TRUE, text |-> t] : t \in texts} \cup {[ok |-> FALSE, text |-> m] : m \in ErrorMessages}

(***************************************************************************)
(* ImageAnalyzerAgent                                                      *)
(***************************************************************************)

MinImageSide == 100
MaxImageSide == 4096

validate_medical_image(image_path) ==
    LET img == Files[image_path]
    IN  IF ~img.decodes THEN FALSE
        ELSE IF img.width < MinImageSide \/ img.height < MinImageSide THEN FALSE
        ELSE IF img.width > MaxImageSide \/ img.height > MaxImageSide THEN FALSE
        ELSE TRUE

\* What the prompt interpolates: the clinical context block is added only
\* for a non-empty query.
_build_analysis_prompt(clinical_query) ==
    [has_clinical_context |-> clinical_query # "", clinical_context |-> clinical_query]

\* analyze_image from llm.invoke's outcome on: the try block's return, or
\* the except block's.
E_int_too_large ==
    <<"i","n","t"," ","t","o","o"," ","l","a","r","g","e"," ","t","o"," ",
      "c","o","n","v","e","r","t"," ","t","o"," ","f","l","o","a","t">>

\* str(e) of an exception raised inside analyze_image's try block
ExceptionText(exc) == CASE exc = "OverflowError" -> E_int_too_large

analyze_image_result(outcome, image_path, clinical_query) ==
    IF outcome.ok
    THEN CHOOSE result \in
            {IF confidence.raised # "none"
             THEN [status |-> "error", error |-> ExceptionText(confidence.raised),
                   image_path |-> image_path]
             ELSE [status |-> "success",
                   analysis |-> _parse_analysis_response(outcome.text),
                   confidence_score |-> confidence.value,
                   image_path |-> image_path,
                   clinical_query |-> clinical_query] :
                confidence \in {_extract_confidence_score(outcome.text)}} : TRUE
    ELSE [status |-> "error", error |-> outcome.text, image_path |-> image_path]

(***************************************************************************)
(* MedicalReasonerAgent, RiskCriticAgent, ReportWriterAgent                *)
(***************************************************************************)

S_NA == <<"N","/","A">>
S_None == <<"N","o","n","e">>
S_comma == <<","," ">>
S_no_context == "No additional context provided."

\* str(x) of a float held in tenths, as an f-string renders it
str_float(tenths) ==
    IF tenths >= 10 THEN <<DigitChars[(tenths \div 10) + 1], ".", DigitChars[(tenths % 10) + 1]>>
    ELSE <<"0", ".", DigitChars[tenths + 1]>>

\* f"{findings.get(key, default)}" for the confidence: a float, or the default's text
FormatConfidence(findings, default) ==
    IF "confidence" \in DOMAIN findings THEN str_float(findings["confidence"]) ELSE default

_build_reasoning_prompt(findings, context) ==
    [modality |-> Get(findings, "modality", S_NA),
     region |-> Get(findings, "anatomical_region", S_NA),
     key_findings |-> join(S_comma, Get(findings, "key_findings", <<>>)),
     normal_structures |-> join(S_comma, Get(findings, "normal_structures", <<>>)),
     image_quality |-> Get(findings, "image_quality", S_NA),
     confidence |-> FormatConfidence(findings, S_NA),
     context |-> IF context # "" THEN context ELSE S_no_context]

_build_critique_prompt(reasoning_text, context) ==
    [diagnostic_report |-> reasoning_text,
     context |-> IF context # "" THEN context ELSE S_no_context]

_build_report_prompt(image_findings, reasoning, critique) ==
    [modality |-> Get(image_findings, "modality", S_None),
     region |-> Get(image_findings, "anatomical_region", S_None),
     key_findings |-> join(S_comma, Get(image_findings, "key_findings", <<>>)),
     normal_structures |-> join(S_comma, Get(image_findings, "normal_structures", <<>>)),
     image_quality |-> Get(image_findings, "image_quality", S_None),
     confidence |-> FormatConfidence(image_findings, S_None),
     reasoning |-> reasoning,
     critique |-> critique]

\* The dict a text agent returns: response.content.strip() under result_key
\* on success, str(e) under "error" otherwise.
AgentResult(outcome, result_key) ==
    IF outcome.ok THEN (result_key :> strip(outcome.text)) @@ [status |-> "success"]
    ELSE [status |-> "error", error |-> outcome.text]

\* A node that reads result_key whatever the status is.
NodeOutput_ignores_status(result, result_key) == Get(result, result_key, S_None)

\* result.get(result_key) if result.get("status") == "success" else result.get("error")
NodeOutput(result, result_key) ==
    IF Get(result, "status", "None") = "success" THEN Get(result, result_key, S_None)
    ELSE Get(result, "error", S_None)

(***************************************************************************)
(* The graph and its executor                                              *)
(***************************************************************************)

Nodes == {"ImageAnalysis", "Reasoning", "Critique", "Report"}

entry_point == "ImageAnalysis"

\* A graph with one more edge, from ImageAnalysis to Critique.
edges_fan_out ==
    {<<"ImageAnalysis", "Reasoning">>, <<"ImageAnalysis", "Critique">>,
     <<"Reasoning", "Critique">>, <<"Critique", "Report">>, <<"Report", "END">>}

\* builder.add_edge(source, target)
edges ==
    {<<"ImageAnalysis", "Reasoning">>, <<"Reasoning", "Critique">>,
     <<"Critique", "Report">>, <<"Report", "END">>}

Successors(n) == {e[2] : e \in {d \in edges : d[1] = n}} \ {"END"}

EmptyDict == <<>>
NoFrame == [at |-> "none"]

Active == {"invoking", "resumed"}

\* The executor starts a node it has scheduled.
Scheduled(n) == run_status = "running" /\ n \in frontier

\* The node builds its request and calls llm.invoke, which blocks.
Invoke(n, prompt) ==
    /\ calls' = Append(calls, [node |-> n, prompt |-> prompt,
                                reply |-> "pending", message |-> <<>>])
    /\ node_status' = [node_status EXCEPT ![n] = "invoking"]
    /\ runs' = [runs EXCEPT ![n] = @ + 1]
    /\ frontier' = frontier \ {n}
    /\ UNCHANGED <<state, run_status, raised, frame, arg, ret, peer, batch>>

\* An exception leaves the node: nothing catches it, ainvoke raises it.
Abort(n, exc) ==
    /\ run_status' = "raised"
    /\ raised' = exc
    /\ node_status' = [node_status EXCEPT ![n] = "raised"]
    /\ frame' = [frame EXCEPT ![n] = NoFrame]
    /\ frontier' = frontier \ {n}

\* state[key] = value; return state.  The executor schedules the node's
\* successors, and ainvoke returns the state once nothing is left to run.
Complete(n, key, value) ==
    /\ state' = (key :> value) @@ state
    /\ node_status' = [node_status EXCEPT ![n] = "done"]
    /\ frame' = [frame EXCEPT ![n] = NoFrame]
    /\ frontier' = frontier \cup Successors(n)
    /\ run_status' = IF frontier \cup Successors(n) = {}
                        /\ \A m \in Nodes \ {n} : node_status[m] \notin Active
                     THEN "returned" ELSE "running"
    /\ UNCHANGED <<runs, raised, calls, arg, ret, peer, batch>>

AnalysisOutcomes == Outcomes(AnalysisTexts)
ReplyOutcomes == Outcomes(ReplyTexts)

\* The call of node n that has not come back yet.
PendingCall(n) == CHOOSE i \in 1..Len(calls) : calls[i].node = n /\ calls[i].reply = "pending"

\* What llm.invoke may come back with for node n.  arg is empty when the
\* model behind it is free to answer anything; a stub put in its place
\* (arg names one outcome per node) always answers the same.
Responses(n) ==
    IF DOMAIN arg = {}
    THEN IF n = "ImageAnalysis" THEN AnalysisOutcomes ELSE ReplyOutcomes
    ELSE {arg[n]}

\* llm.invoke comes back to the node that is waiting for it: it returns
\* response.content, or raises.  calls keeps how each call ended, and the
\* message of the exception if it raised.
InferenceResponds ==
    \E n \in Nodes :
        /\ run_status = "running"
        /\ node_status[n] = "invoking"
        /\ \E outcome \in Responses(n) :
               /\ frame' = [frame EXCEPT ![n] = [at |-> "outcome", outcome |-> outcome]]
               /\ calls' = [calls EXCEPT ![PendingCall(n)] =
                               [@ EXCEPT !.reply = IF outcome.ok THEN "returned" ELSE "raised",
                                         !.message = IF outcome.ok THEN <<>> ELSE outcome.text]]
        /\ node_status' = [node_status EXCEPT ![n] = "resumed"]
        /\ UNCHANGED <<state, runs, frontier, run_status, raised, arg, ret, peer, batch>>

\* analyze_image without its validation step.
image_analysis_node_start_unvalidated ==
    /\ Scheduled("ImageAnalysis")
    /\ Invoke("ImageAnalysis",
              [text |-> _build_analysis_prompt(Get(state, "clinical_query", "")),
               image |-> Get(state, "image_path", "")])

\* image_analysis_node up to llm.invoke: analyze_image validates the image first.
image_analysis_node_start ==
    /\ Scheduled("ImageAnalysis")
    /\ IF ~validate_medical_image(Get(state, "image_path", ""))
       THEN /\ Abort("ImageAnalysis", "ValueError")
            /\ runs' = [runs EXCEPT !["ImageAnalysis"] = @ + 1]
            /\ UNCHANGED <<state, calls, arg, ret, peer, batch>>
       ELSE Invoke("ImageAnalysis",
                   [text |-> _build_analysis_prompt(Get(state, "clinical_query", "")),
                    image |-> Get(state, "image_path", "")])

\* result = analyzer.analyze_image(image_path, query)
image_analysis_node_result ==
    /\ run_status = "running"
    /\ node_status["ImageAnalysis"] = "resumed"
    /\ frame["ImageAnalysis"].at = "outcome"
    /\ frame' = [frame EXCEPT !["ImageAnalysis"] =
                    [at |-> "result",
                     result |-> analyze_image_result(frame["ImageAnalysis"].outcome,
                                                     Get(state, "image_path", ""),
                                                     Get(state, "clinical_query", ""))]]
    /\ UNCHANGED <<state, node_status, runs, frontier, run_status, raised, calls, arg, ret, peer, batch>>

\* findings = analyzer.get_structured_findings(result); state["image_findings"] = findings
image_analysis_node_finish ==
    /\ run_status = "running"
    /\ node_status["ImageAnalysis"] = "resumed"
    /\ frame["ImageAnalysis"].at = "result"
    /\ \E findings \in {get_structured_findings(frame["ImageAnalysis"].result)} :
          IF findings.raised # "none"
          THEN /\ Abort("ImageAnalysis", findings.raised)
               /\ UNCHANGED <<state, runs, calls, arg, ret, peer, batch>>
          ELSE Complete("ImageAnalysis", "image_findings", findings.value)

reasoning_node_start ==
    /\ Scheduled("Reasoning")
    /\ Invoke("Reasoning",
              _build_reasoning_prompt(Get(state, "image_findings", EmptyDict),
                                      Get(state, "retrieved_context", "")))

\* A reasoning node that calls the service again when the call failed.
reasoning_node_finish_retries ==
    /\ run_status = "running"
    /\ node_status["Reasoning"] = "resumed"
    /\ IF frame["Reasoning"].outcome.ok
       THEN Complete("Reasoning", "reasoning",
                     NodeOutput(AgentResult(frame["Reasoning"].outcome, "diagnostic_reasoning"),
                                "diagnostic_reasoning"))
       ELSE Invoke("Reasoning",
                   _build_reasoning_prompt(Get(state, "image_findings", EmptyDict),
                                           Get(state, "retrieved_context", "")))

reasoning_node_finish ==
    /\ run_status = "running"
    /\ node_status["Reasoning"] = "resumed"
    /\ Complete("Reasoning", "reasoning",
                NodeOutput(AgentResult(frame["Reasoning"].outcome, "diagnostic_reasoning"),
                           "diagnostic_reasoning"))

critique_node_start ==
    /\ Scheduled("Critique")
    /\ Invoke("Critique",
              _build_critique_prompt(Get(state, "reasoning", <<>>),
                                     Get(state, "retrieved_context", "")))

\* A critique node that assigns its output to the reasoning key.
critique_node_finish_writes_reasoning ==
    /\ run_status = "running"
    /\ node_status["Critique"] = "resumed"
    /\ Complete("Critique", "reasoning",
                NodeOutput(AgentResult(frame["Critique"].outcome, "critique"), "critique"))

critique_node_finish ==
    /\ run_status = "running"
    /\ node_status["Critique"] = "resumed"
    /\ Complete("Critique", "critique",
                NodeOutput(AgentResult(frame["Critique"].outcome, "critique"), "critique"))

report_writer_node_start ==
    /\ Scheduled("Report")
    /\ Invoke("Report",
              _build_report_prompt(Get(state, "image_findings", EmptyDict),
                                   Get(state, "reasoning", <<>>),
                                   Get(state, "critique", <<>>)))

report_writer_node_finish ==
    /\ run_status = "running"
    /\ node_status["Report"] = "resumed"
    /\ Complete("Report", "final_report",
                NodeOutput(AgentResult(frame["Report"].outcome, "final_report"), "final_report"))

\* run_medilens_pipeline(image_path, clinical_query, context): the initial state
Init ==
    /\ \E image_path \in ImagePaths, clinical_query \in ClinicalQueries, context \in Contexts :
          state = [image_path |-> image_path,
                   clinical_query |-> clinical_query,
                   retrieved_context |-> context]
    /\ node_status = [n \in Nodes |-> "idle"]
    /\ runs = [n \in Nodes |-> 0]
    /\ frontier = {entry_point}
    /\ run_status = "running"
    /\ raised = "none"
    /\ calls = <<>>
    /\ frame = [n \in Nodes |-> NoFrame]
    /\ peer = <<>>
    /\ batch = <<>>
    /\ arg = <<>>
    /\ ret = <<>>

Next ==
    \/ image_analysis_node_start
    \/ image_analysis_node_result
    \/ image_analysis_node_finish
    \/ reasoning_node_start
    \/ reasoning_node_finish
    \/ critique_node_start
    \/ critique_node_finish
    \/ report_writer_node_start
    \/ report_writer_node_finish
    \/ InferenceResponds

Spec == Init /\ [][Next]_vars

(***************************************************************************)
(* A run against a stub of the inference service                           *)
(***************************************************************************)

\* The analysis texts a stub is set up with.
StubAnalysisTexts ==
    { <<"C","h","e","s","t"," ","X","-","r","a","y","\n">>,
      <<"C","h","e","s","t"," ","X","-","r","a","y","\n","D","I","F","F","E","R","E","N","T","I","A","L"," ","D","I","A","G","N","O","S","I","S","\n","P","n","e","u","m","o","n","i","a"," ","l","i","k","e","l","y","\n">>,
      <<"T","e","c","h","n","i","c","a","l"," ","q","u","a","l","i","t","y","\n","C","h","e","s","t"," ","X","-","r","a","y","\n">>,
      <<"M","R","I"," ","o","f"," ","t","h","e"," ","a","b","d","o","m","e","n","\n">> }

\* A stub: the outcome it gives to the call of each node.
Stubs ==
    {stub \in [Nodes -> Outcomes(StubAnalysisTexts) \cup ReplyOutcomes] :
        /\ stub["ImageAnalysis"] \in Outcomes(StubAnalysisTexts)
        /\ \A n \in Nodes \ {"ImageAnalysis"} : stub[n] \in ReplyOutcomes}

\* run_medilens_pipeline with the agents' llm replaced by a stub
InitStub ==
    /\ \E image_path \in ImagePaths, clinical_query \in ClinicalQueries, context \in Contexts :
          state = [image_path |-> image_path,
                   clinical_query |-> clinical_query,
                   retrieved_context |-> context]
    /\ node_status = [n \in Nodes |-> "idle"]
    /\ runs = [n \in Nodes |-> 0]
    /\ frontier = {entry_point}
    /\ run_status = "running"
    /\ raised = "none"
    /\ calls = <<>>
    /\ frame = [n \in Nodes |-> NoFrame]
    /\ peer = <<>>
    /\ batch = <<>>
    /\ arg \in Stubs
    /\ ret = <<>>

SpecStub == InitStub /\ [][Next]_vars

(***************************************************************************)
(* Two runs of the pipeline at the same time                               *)
(***************************************************************************)

\* The run that executes now: everything ainvoke(state) and the nodes it
\* calls read or write.  The compiled graph is shared and never written.
Loaded ==
    [state |-> state, node_status |-> node_status, runs |-> runs, frontier |-> frontier,
     run_status |-> run_status, raised |-> raised, calls |-> calls, frame |-> frame,
     arg |-> arg]

\* Two runs that were handed one and the same state dict.
Switch_shared_state ==
    /\ DOMAIN peer # {}
    /\ node_status' = peer.node_status
    /\ runs' = peer.runs
    /\ frontier' = peer.frontier
    /\ run_status' = peer.run_status
    /\ raised' = peer.raised
    /\ calls' = peer.calls
    /\ frame' = peer.frame
    /\ arg' = peer.arg
    /\ peer' = [Loaded EXCEPT !.state = peer.state]
    /\ UNCHANGED <<state, ret, batch>>

\* The other run takes over where it was left, and this one waits.
Switch ==
    /\ DOMAIN peer # {}
    /\ state' = peer.state
    /\ node_status' = peer.node_status
    /\ runs' = peer.runs
    /\ frontier' = peer.frontier
    /\ run_status' = peer.run_status
    /\ raised' = peer.raised
    /\ calls' = peer.calls
    /\ frame' = peer.frame
    /\ arg' = peer.arg
    /\ peer' = Loaded
    /\ UNCHANGED <<ret, batch>>

\* One run alone, or two runs started by a caller that awaits both; the
\* two are given different queries.
InitPair ==
    \E images \in {{"chest.jpg", "tiny.png"}},
       stubs \in {{stub \in Stubs :
                     /\ stub["ImageAnalysis"] \in
                            Outcomes({Phrases[1], Phrases[1] \o Phrases[2] \o Phrases[3]})
                     /\ stub["Critique"] = stub["Reasoning"]
                     /\ stub["Report"] = stub["Reasoning"]}} :
        /\ \E image_path \in images :
              state = [image_path |-> image_path,
                       clinical_query |-> "",
                       retrieved_context |-> ""]
        /\ node_status = [n \in Nodes |-> "idle"]
        /\ runs = [n \in Nodes |-> 0]
        /\ frontier = {entry_point}
        /\ run_status = "running"
        /\ raised = "none"
        /\ calls = <<>>
        /\ frame = [n \in Nodes |-> NoFrame]
        /\ arg \in stubs
        /\ ret = <<>>
        /\ batch = <<>>
        /\ \/ peer = <<>>
           \/ \E image_path \in images, stub \in stubs :
                 peer = [state |-> [image_path |-> image_path,
                                    clinical_query |-> "shortness of breath",
                                    retrieved_context |-> ""],
                         node_status |-> [n \in Nodes |-> "idle"],
                         runs |-> [n \in Nodes |-> 0],
                         frontier |-> {entry_point},
                         run_status |-> "running",
                         raised |-> "none",
                         calls |-> <<>>,
                         frame |-> [n \in Nodes |-> NoFrame],
                         arg |-> stub]

NextPair == Next \/ Switch

SpecPair == InitPair /\ [][NextPair]_vars

(***************************************************************************)
(* main.py: the CLI over a folder of images                                *)
(***************************************************************************)

\* os.path.isfile(image_path): the paths of Files are files, any other path
\* the glob finds ("scans.jpg" below) is a directory.
os_path_isfile(image_path) == image_path \in DOMAIN Files

\* The longest folder listing
MaxBatch == 3

\* list(image_path.glob("*.jpg")) + list(image_path.glob("*.png")): distinct
\* paths, those ending in .jpg before those ending in .png, in any order
\* within each group.
Folders ==
    LET jpg == {"chest.jpg", "short.jpg", "scans.jpg"}
        png == {"edge.png"}
    IN  {images \in UNION {[1..n -> jpg \cup png] : n \in 0..MaxBatch} :
            /\ \A i, j \in DOMAIN images : i # j => images[i] # images[j]
            /\ \A i, j \in DOMAIN images : (i < j /\ images[i] \in png) => images[j] \in png}

\* main() up to its loop over the images of the folder
InitBatch ==
    /\ \E images \in Folders, query \in ClinicalQueries :
          batch = [images |-> images, query |-> query, context |-> "",
                   at |-> 1, started |-> <<>>, saved |-> <<>>]
    /\ state = EmptyDict
    /\ node_status = [n \in Nodes |-> "idle"]
    /\ runs = [n \in Nodes |-> 0]
    /\ frontier = {}
    /\ run_status = "idle"
    /\ raised = "none"
    /\ calls = <<>>
    /\ frame = [n \in Nodes |-> NoFrame]
    /\ arg = <<>>
    /\ ret = <<>>
    /\ peer = <<>>

\* A version of the loop that goes on to the next image after an exception.
run_pipeline_for_image_start_after_error ==
    /\ DOMAIN batch # {}
    /\ run_status \in {"idle", "raised"}
    /\ batch.at + (IF run_status = "raised" THEN 1 ELSE 0) <= Len(batch.images)
    /\ \E image_path \in {batch.images[batch.at + (IF run_status = "raised" THEN 1 ELSE 0)]} :
          /\ state' = [image_path |-> image_path,
                       clinical_query |-> batch.query,
                       retrieved_context |-> batch.context]
          /\ node_status' = [n \in Nodes |-> "idle"]
          /\ runs' = [n \in Nodes |-> 0]
          /\ frontier' = {entry_point}
          /\ run_status' = "running"
          /\ raised' = "none"
          /\ calls' = <<>>
          /\ frame' = [n \in Nodes |-> NoFrame]
          /\ arg' \in Stubs
          /\ batch' = [batch EXCEPT !.started = Append(@, image_path),
                                    !.at = @ + (IF run_status = "raised" THEN 1 ELSE 0)]
          /\ UNCHANGED <<ret, peer>>

\* The next turn of the loop: run_pipeline_for_image up to its await.  A path
\* that is no file is logged and left out; for a file run_medilens_pipeline
\* builds a new state and starts the graph on it.  arg is what the service
\* is going to answer during this run.
run_pipeline_for_image_start ==
    /\ DOMAIN batch # {}
    /\ run_status = "idle"
    /\ batch.at <= Len(batch.images)
    /\ \E image_path \in {batch.images[batch.at]} :
          IF ~os_path_isfile(image_path)
          THEN /\ batch' = [batch EXCEPT !.at = @ + 1]
               /\ UNCHANGED <<state, node_status, runs, frontier, run_status, raised, calls,
                              frame, arg, ret, peer>>
          ELSE /\ state' = [image_path |-> image_path,
                            clinical_query |-> batch.query,
                            retrieved_context |-> batch.context]
               /\ node_status' = [n \in Nodes |-> "idle"]
               /\ runs' = [n \in Nodes |-> 0]
               /\ frontier' = {entry_point}
               /\ run_status' = "running"
               /\ raised' = "none"
               /\ calls' = <<>>
               /\ frame' = [n \in Nodes |-> NoFrame]
               /\ arg' \in Stubs
               /\ batch' = [batch EXCEPT !.started = Append(@, image_path)]
               /\ UNCHANGED <<ret, peer>>

\* run_pipeline_for_image after its await: report_text = result["final_report"],
\* save_report writes it, and the loop moves on.
run_pipeline_for_image_finish ==
    /\ DOMAIN batch # {}
    /\ run_status = "returned"
    /\ IF "final_report" \in DOMAIN state
       THEN /\ batch' = [batch EXCEPT
                            !.saved = Append(@, [image_path |-> state["image_path"],
                                                 report_text |-> state["final_report"]]),
                            !.at = @ + 1]
            /\ run_status' = "idle"
            /\ UNCHANGED raised
       ELSE /\ run_status' = "raised"
            /\ raised' = "KeyError"
            /\ UNCHANGED batch
    /\ UNCHANGED <<state, node_status, runs, frontier, calls, frame, arg, ret, peer>>

NextBatch == Next \/ run_pipeline_for_image_start \/ run_pipeline_for_image_finish

SpecBatch == InitBatch /\ [][NextBatch]_vars

(***************************************************************************)
(* _extract_confidence_score applied on its own to response texts          *)
(***************************************************************************)

ConfPhrases ==
    <<<<"C", "o", "n", "f", "i", "d", "e", "n", "c", "e", ":", " ">>,
      <<"c", "e", "r", "t", "a", "i", "n", "t", "y", ":", " ">>,
      <<"C", "O", "N", "F", "I", "D", "E", "N", "C", "E", " ", "i", "s", " ">>,
      <<"8">>,
      <<"1", "0">>,
      <<"/", "1", "0">>,
      <<" ", "o", "u", "t", " ", "o", "f", " ", "1", "0">>,
      <<"\n">>>>

MaxConfPhrases == 4

ConfTexts == TextsFrom(ConfPhrases, MaxConfPhrases) \cup LongScoreTexts

InitConf ==
    /\ arg \in ConfTexts
    /\ ret = <<>>
    /\ state = EmptyDict
    /\ node_status = [n \in Nodes |-> "idle"]
    /\ runs = [n \in Nodes |-> 0]
    /\ frontier = {}
    /\ run_status = "idle"
    /\ raised = "none"
    /\ calls = <<>>
    /\ frame = [n \in Nodes |-> NoFrame]
    /\ peer = <<>>
    /\ batch = <<>>

\* How many times the same text is parsed.
MaxParses == 2

\* confidence = self._extract_confidence_score(response.content): ret keeps
\* the value of every parse of arg.
ExtractConfidence ==
    /\ run_status = "idle"
    /\ Len(ret) < MaxParses
    /\ ret' = Append(ret, _extract_confidence_score(arg))
    /\ UNCHANGED <<state, node_status, runs, frontier, run_status, raised, calls, frame, arg, peer, batch>>

SpecConf == InitConf /\ [][ExtractConfidence]_vars

\* Either a pipeline run or the extractor on its own.
InitAll == Init \/ InitConf

NextAll == Next \/ ExtractConfidence

SpecAll == InitAll /\ [][NextAll]_vars

(***************************************************************************)
(* The extraction functions applied on their own                           *)
(***************************************************************************)

ExtractorNames ==
    {"_parse_analysis_response", "_extract_differentials", "_extract_key_findings",
     "_extract_modality", "_extract_anatomical_region", "_assess_image_quality",
     "validate_medical_image"}

\* Pieces of the text blocks each function is applied to; every piece is
\* one or two lines.
ExtractPhrases ==
    [fn \in ExtractorNames \ {"validate_medical_image"} |->
        CASE fn = "_parse_analysis_response" ->
               << <<"C","h","e","s","t"," ","X","-","r","a","y","\n">>,
                  <<"D","I","F","F","E","R","E","N","T","I","A","L"," ","D","I","A","G","N","O","S","I","S","\n">>,
                  <<"F","I","N","D","I","N","G","S"," ","A","N","D"," ","D","I","F","F","E","R","E","N","T","I","A","L"," ","D","I","A","G","N","O","S","I","S","\n">>,
                  <<"T","e","c","h","n","i","c","a","l"," ","q","u","a","l","i","t","y","\n">>,
                  <<" "," ","P","n","e","u","m","o","n","i","a"," ","l","i","k","e","l","y","\n","C","o","n","s","i","d","e","r"," ","e","d","e","m","a","\n">>,
                  <<"D","i","a","g","n","o","s","i","s"," ","o","f"," ","e","x","c","l","u","s","i","o","n","\n","\n">>,
                  <<"L","u","n","g","s"," ","c","l","e","a","r","\n","T","E","C","H","N","I","C","A","L"," ","Q","U","A","L","I","T","Y","\n">> >>
          [] fn = "_extract_differentials" ->
               << <<"1","."," ","P","n","e","u","m","o","n","i","a"," ","l","i","k","e","l","y","\n","\n","-"," ","E","d","e","m","a","\n">>,
                  <<"*"," ","a","b","c","d","e","f","g","h","i","j","\n","-"," ","a","b","c","d","e","f","g","h","i","\n">>,
                  <<"a","b","c","d","e","f","g","h","i","j","k","\n">>,
                  <<"#"," ","n","o","t","e","\n">> >>
          [] fn = "_extract_key_findings" ->
               << <<"1","."," ","F","i","n","d","i","n","g"," ","A","\n","-"," ","F","i","n","d","i","n","g"," ","B","\n">>,
                  <<"*"," ","F","i","n","d","i","n","g"," ","C","\n","\n">>,
                  <<"#"," ","n","o","t","e","\n">>,
                  <<"2",".","\n">> >>
          [] fn = "_extract_modality" ->
               << <<"C","h","e","s","t"," ","X","-","r","a","y","\n">>,
                  <<"M","R","I",","," ","t","h","e","n"," ","C","T","\n">>,
                  <<"U","l","t","r","a","s","o","u","n","d","\n">>,
                  <<"p","l","a","i","n"," ","f","i","l","m","\n">> >>
          [] fn = "_extract_anatomical_region" ->
               << <<"C","h","e","s","t"," ","X","-","r","a","y","\n">>,
                  <<"L","u","n","g"," ","a","n","d"," ","h","e","a","r","t","\n">>,
                  <<"n","e","c","k",","," ","t","h","e","n"," ","H","E","A","D","\n">>,
                  <<"p","l","a","i","n"," ","f","i","l","m","\n">> >>
          [] fn = "_assess_image_quality" ->
               << <<"o","p","t","i","m","a","l"," ","i","m","a","g","e","\n">>,
                  <<"g","o","o","d"," ","b","u","t"," ","p","o","o","r"," ","c","o","n","t","r","a","s","t","\n">>,
                  <<"L","i","m","i","t","e","d",","," ","f","a","i","r","\n">>,
                  <<"s","h","a","r","p","\n">>,
                  <<"S","u","b","o","p","t","i","m","a","l"," ","p","o","s","i","t","i","o","n","i","n","g","\n">>,
                  <<"D","e","g","r","a","d","e","d",","," ","p","o","o","r"," ","d","e","t","a","i","l","\n">> >>]

MaxExtractPhrases == 3

\* The call fn(input), as what it returns or raises.
Extractor(fn, input) ==
    CASE fn = "_parse_analysis_response" -> Return(_parse_analysis_response(input))
      [] fn = "_extract_differentials" -> _extract_differentials(input)
      [] fn = "_extract_key_findings" -> _extract_key_findings(input)
      [] fn = "_extract_modality" -> Return(_extract_modality(input))
      [] fn = "_extract_anatomical_region" -> Return(_extract_anatomical_region(input))
      [] fn = "_assess_image_quality" -> Return(_assess_image_quality(input))
      [] fn = "validate_medical_image" -> Return(validate_medical_image(input))

InitExtract ==
    /\ arg \in UNION {{[fn |-> fn, input |-> input] :
                          input \in IF fn = "validate_medical_image" THEN ImagePaths
                                    ELSE TextsFrom(ExtractPhrases[fn], MaxExtractPhrases)} :
                      fn \in ExtractorNames}
    /\ ret = <<>>
    /\ state = EmptyDict
    /\ node_status = [n \in Nodes |-> "idle"]
    /\ runs = [n \in Nodes |-> 0]
    /\ frontier = {}
    /\ run_status = "idle"
    /\ raised = "none"
    /\ calls = <<>>
    /\ frame = [n \in Nodes |-> NoFrame]
    /\ peer = <<>>
    /\ batch = <<>>

\* One call of arg.fn on arg.input; ret holds what it gave back.
ApplyExtractor ==
    /\ run_status = "idle"
    /\ ret = <<>>
    /\ ret' = <<Extractor(arg.fn, arg.input)>>
    /\ UNCHANGED <<state, node_status, runs, frontier, run_status, raised, calls, frame, arg, peer, batch>>

SpecExtract == InitExtract /\ [][ApplyExtractor]_vars

(***************************************************************************)
(* Properties                                                              *)
(***************************************************************************)

TextStages == {"Reasoning", "Critique", "Report"}

\* The field of the state each stage is to write.
StageField ==
    [n \in Nodes |->
        CASE n = "ImageAnalysis" -> "image_findings"
          [] n = "Reasoning" -> "reasoning"
          [] n = "Critique" -> "critique"
          [] n = "Report" -> "final_report"]

\* The stages the graph runs after stage n.
LaterStages(n) ==
    CASE n = "ImageAnalysis" -> {"Reasoning", "Critique", "Report"}
      [] n = "Reasoning" -> {"Critique", "Report"}
      [] n = "Critique" -> {"Report"}
      [] n = "Report" -> {}

CallsOf(n) == {i \in 1..Len(calls) : calls[i].node = n}
FailedCall(n) == \E i \in CallsOf(n) : calls[i].reply = "raised"
FailureMessage(n) == calls[CHOOSE i \in CallsOf(n) : calls[i].reply = "raised"].message

\* What C1 says up to the final report: a failed call of a text stage does
\* not abort the run, the stage's field is the error's message, the run
\* goes on while it has not returned, and when it returns every later stage
\* has run and final_report is set.
FailureIsCaptured(n) ==
    FailedCall(n) =>
        /\ raised = "none"
        /\ run_status \in {"running", "returned"}
        /\ node_status[n] = "done" =>
              /\ StageField[n] \in DOMAIN state
              /\ state[StageField[n]] = FailureMessage(n)
        /\ run_status = "running" => ENABLED Next
        /\ run_status = "returned" =>
              /\ node_status[n] = "done"
              /\ \A m \in LaterStages(n) : node_status[m] = "done" /\ runs[m] = 1
              /\ "final_report" \in DOMAIN state

\* C1 (as amended): for each of Reasoning, Critique and Report, if the stage's
\* inference call fails the run is not aborted, the stage's field is set to
\* the error's message, every later stage still runs, and the run returns a
\* state in which final_report is set; final_report is the Report call's
\* stripped text or error message and is empty when that is empty.
C1_FailureCaptured == \A n \in TextStages : FailureIsCaptured(n)

\* C1 as stated: the same, with a non-empty final_report in the returned state.
C1_FinalReportNonEmpty ==
    \A n \in TextStages :
        /\ FailureIsCaptured(n)
        /\ (FailedCall(n) /\ run_status = "returned") => state["final_report"] # <<>>

\* A run that returned after its Reasoning call failed: reasoning holds the
\* message, Critique and Report ran, and the report has text.
C1_Witness ==
    /\ run_status = "returned"
    /\ FailedCall("Reasoning")
    /\ state["reasoning"] \in ErrorMessages
    /\ node_status["Critique"] = "done" /\ node_status["Report"] = "done"
    /\ state["final_report"] # <<>>

InputKeys == {"image_path", "clinical_query", "retrieved_context"}
StageFields == {StageField[n] : n \in Nodes}

ImageIsInvalid == ~validate_medical_image(state["image_path"])

\* C2: if the input image fails validation, the run aborts with a hard
\* error in the Analysis stage before any inference call is made and before
\* any of image_findings, reasoning, critique or final_report is written;
\* Reasoning, Critique and Report never run in that run.
C2_InvalidImageAborts ==
    ImageIsInvalid =>
        /\ calls = <<>>
        /\ DOMAIN state = InputKeys
        /\ \A n \in TextStages : node_status[n] = "idle" /\ runs[n] = 0 /\ n \notin frontier
        /\ run_status \in {"running", "raised"}
        /\ run_status = "running" =>
              /\ node_status["ImageAnalysis"] = "idle"
              /\ ENABLED image_analysis_node_start
        /\ run_status = "raised" =>
              /\ raised = "ValueError"
              /\ node_status["ImageAnalysis"] = "raised"

\* A run on a 99 x 512 image that ended in the ValueError, with no call
\* made and no field written.
C2_Witness ==
    /\ state["image_path"] = "tiny.png"
    /\ run_status = "raised"
    /\ raised = "ValueError"
    /\ calls = <<>>
    /\ DOMAIN state = InputKeys

\* C3: every run ends in exactly one of two outcomes, a fatal validation
\* error or a final state with image_findings, reasoning, critique and
\* final_report all set; and a run on an image that passes validation ends
\* in the second one whatever the inference calls return or raise.
C3_TwoOutcomes ==
    /\ run_status # "running" =>
          \/ run_status = "raised" /\ raised = "ValueError" /\ ImageIsInvalid
          \/ run_status = "returned" /\ StageFields \subseteq DOMAIN state
    /\ ~ImageIsInvalid => run_status \in {"running", "returned"}

StageOrder == <<"ImageAnalysis", "Reasoning", "Critique", "Report">>
Position(n) == CHOOSE i \in 1..Len(StageOrder) : StageOrder[i] = n

\* C4: within one run the stages execute in the order Analysis, Reasoning,
\* Critique, Report: a stage starts only after the previous stage has
\* returned, each stage runs at most once, no two stages are active at the
\* same time, and no stage that has started is scheduled again.
C4_LinearOrder ==
    /\ \A n \in Nodes : runs[n] <= 1
    /\ Cardinality({n \in Nodes : node_status[n] \in Active}) <= 1
    /\ \A i \in 2..Len(StageOrder) :
          (node_status[StageOrder[i]] # "idle" \/ StageOrder[i] \in frontier)
              => node_status[StageOrder[i - 1]] = "done"
    /\ \A n \in frontier : node_status[n] = "idle" /\ runs[n] = 0
    /\ \A i, j \in 1..Len(calls) : i < j => Position(calls[i].node) < Position(calls[j].node)

\* A returned run in which the four stages each ran once and called the
\* inference service in the order of the graph.
C4_Witness ==
    /\ run_status = "returned"
    /\ \A n \in Nodes : runs[n] = 1 /\ node_status[n] = "done"
    /\ [i \in 1..Len(calls) |-> calls[i].node] = StageOrder

\* C5: the state is append-only during a run: a step never removes a key or
\* changes the value of a key that is set (so image_path, clinical_query and
\* retrieved_context keep their initial values and a stage field never
\* changes once written), and a stage field is added only by the step in
\* which its own stage finishes.
C5_AppendOnly ==
    [][ /\ DOMAIN state \subseteq DOMAIN state'
        /\ \A k \in DOMAIN state : state'[k] = state[k]
        /\ DOMAIN state' \ DOMAIN state \subseteq StageFields
        /\ \A n \in Nodes :
              (StageField[n] \in DOMAIN state' /\ StageField[n] \notin DOMAIN state)
                  => node_status[n] = "resumed" /\ node_status'[n] = "done"
      ]_vars

\* A returned run whose state holds its three inputs and the four stage fields.
C5_Witness ==
    /\ run_status = "returned"
    /\ DOMAIN state = InputKeys \cup StageFields
    /\ state["image_path"] = "edge.png"
    /\ state["clinical_query"] = "shortness of breath"
    /\ state["critique"] # state["reasoning"]

FindingsFields ==
    {"modality", "anatomical_region", "key_findings", "normal_structures",
     "image_quality", "confidence", "differential_diagnoses"}

AllDone(S) == \A m \in S : node_status[m] = "done" /\ runs[m] = 1

\* C6: if the Analysis stage's inference call fails on a validated image the
\* run is not aborted: image_findings is set to a degraded value without any
\* Findings field, the run goes on, Reasoning, Critique and Report have each
\* completed when it returns, and their requests carry the defaults in place
\* of the missing modality, region, key_findings, normal_structures,
\* image_quality and confidence.
C6_DegradedAnalysis ==
    FailedCall("ImageAnalysis") =>
        /\ ~ImageIsInvalid
        /\ raised = "none"
        /\ run_status \in {"running", "returned"}
        /\ node_status["ImageAnalysis"] = "done" =>
              /\ "image_findings" \in DOMAIN state
              /\ DOMAIN state["image_findings"] \cap FindingsFields = {}
              /\ state["image_findings"] = [error |-> E_Analysis_failed]
        /\ run_status = "running" =>
              frontier # {} \/ \E n \in Nodes : node_status[n] \in Active
        /\ run_status = "returned" =>
              /\ AllDone(Nodes)
              /\ StageFields \subseteq DOMAIN state
        /\ \A i \in CallsOf("Reasoning") :
              /\ calls[i].prompt.modality = S_NA
              /\ calls[i].prompt.region = S_NA
              /\ calls[i].prompt.key_findings = <<>>
              /\ calls[i].prompt.normal_structures = <<>>
              /\ calls[i].prompt.image_quality = S_NA
              /\ calls[i].prompt.confidence = S_NA
        /\ \A i \in CallsOf("Report") :
              /\ calls[i].prompt.modality = S_None
              /\ calls[i].prompt.region = S_None
              /\ calls[i].prompt.key_findings = <<>>
              /\ calls[i].prompt.normal_structures = <<>>
              /\ calls[i].prompt.image_quality = S_None
              /\ calls[i].prompt.confidence = S_None

\* A returned run whose Analysis call failed: the findings are the degraded
\* value and the three later stages answered.
C6_Witness ==
    /\ run_status = "returned"
    /\ FailedCall("ImageAnalysis")
    /\ state["image_findings"] = [error |-> E_Analysis_failed]
    /\ ~FailedCall("Reasoning") /\ ~FailedCall("Critique") /\ ~FailedCall("Report")
    /\ state["final_report"] # <<>>

\* C7: no inference call is retried: in any run each of the four stages
\* invokes the inference service at most once, and a stage whose call
\* failed has finished with its degraded output after that one call.
C7_NoRetry ==
    /\ \A n \in Nodes : Cardinality(CallsOf(n)) <= 1
    /\ Len(calls) <= Cardinality(Nodes)
    /\ \A n \in Nodes :
          FailedCall(n) =>
              /\ node_status[n] \in {"resumed", "done"}
              /\ n \notin frontier
              /\ node_status[n] = "done" => StageField[n] \in DOMAIN state

\* A returned run in which all four calls failed, and there were four calls.
C7_Witness ==
    /\ run_status = "returned"
    /\ Len(calls) = 4
    /\ \A n \in Nodes : FailedCall(n)
    /\ \A n \in TextStages : state[StageField[n]] \in ErrorMessages

DefaultFindings(confidence) ==
    [modality |-> V_unknown,
     anatomical_region |-> V_unspecified,
     key_findings |-> <<>>,
     normal_structures |-> <<>>,
     image_quality |-> Q_not_assessed,
     confidence |-> confidence,
     differential_diagnoses |-> <<>>]

\* C8: extraction never fails: for every analysis response text, section
\* classification followed by the construction of the Findings record
\* completes without raising and gives the seven fields, and a text in which
\* nothing matched gives the defaults "unknown", "unspecified",
\* "not assessed", 0.7 and empty sequences.
C8_ExtractionNeverFails ==
    /\ (frame["ImageAnalysis"].at = "result"
          /\ frame["ImageAnalysis"].result.status = "success") =>
          \E findings \in {get_structured_findings(frame["ImageAnalysis"].result)} :
              /\ findings.raised = "none"
              /\ DOMAIN findings.value = FindingsFields
              /\ (\A k \in SectionKeys : frame["ImageAnalysis"].result.analysis[k] = <<>>)
                    => findings.value =
                           DefaultFindings(frame["ImageAnalysis"].result.confidence_score)
    /\ (frame["ImageAnalysis"].at = "outcome" /\ frame["ImageAnalysis"].outcome.ok) =>
          \E text \in {lower(frame["ImageAnalysis"].outcome.text)} :
              (\A i \in 1..Len(confidence_patterns) :
                    ~re_search(confidence_patterns[i], text).matched)
                  => _extract_confidence_score(frame["ImageAnalysis"].outcome.text)
                         = Return(DefaultConfidence)

PatternOrder == <<"confidence_score", "certainty_score", "confidence_out_of_10">>

T_confidence_8_of_10 == <<"C","o","n","f","i","d","e","n","c","e",":"," ","8","/","1","0">>
T_certainty_then_confidence ==
    <<"c","e","r","t","a","i","n","t","y",":"," ","1","0",
      "C","o","n","f","i","d","e","n","c","e",":"," ","8">>

\* What C9 gives for a lowercased text: the integer captured by the first
\* pattern of the list that matches anywhere in the text, in tenths, 1.0 if
\* it is 10 or more; 0.7 when none matches.
FirstMatchingPattern(text) ==
    LET Matching == {i \in 1..Len(PatternOrder) : re_search(PatternOrder[i], text).matched}
    IN  IF Matching = {} THEN 7
        ELSE CHOOSE v \in
                {IF Len(captured) >= 2 THEN 10 ELSE int(captured) :
                    captured \in {Significant(re_search(PatternOrder[MinOf(Matching)],
                                                        text).group1)}} : TRUE

\* C9: the confidence extractor tries its patterns in list order against the
\* lowercased text and uses only the first pattern that matches, whatever
\* the positions of the matches in the text; the result is the captured
\* integer divided by 10 and at most 1.0, so any captured integer of 10 or
\* more gives 1.0, and it is 0.7 when no pattern matches.  "Confidence: 8/10"
\* gives 0.8, and a certainty score that comes earlier in the text does not
\* take precedence over a confidence score.
C9_FirstMatchingPattern ==
    \A k \in 1..Len(ret) :
        /\ \E text \in {lower(arg)} : ret[k] = Return(FirstMatchingPattern(text))
        /\ arg = T_confidence_8_of_10 => ret[k] = Return(8)
        /\ arg = T_certainty_then_confidence => ret[k] = Return(8)

\* C10: confidence extraction is deterministic and bounded: every parse of
\* the same text gives the same value, for every text the value lies in
\* [0.0, 1.0], and the confidence of the analysis result and of
\* image_findings lies in [0.0, 1.0] in every state of a pipeline run where
\* it is present.
C10_ConfidenceBounded ==
    /\ \A k \in 1..Len(ret) :
          /\ ret[k].raised = "none"
          /\ ret[k].value \in 0..10
          /\ ret[k] = ret[1]
    /\ \A k \in DOMAIN state :
          (k = "image_findings" /\ "confidence" \in DOMAIN state[k])
              => state[k]["confidence"] \in 0..10
    /\ frame["ImageAnalysis"].at = "result" =>
          ("confidence_score" \in DOMAIN frame["ImageAnalysis"].result
              => frame["ImageAnalysis"].result.confidence_score \in 0..10)

\* The lines of a text block after stripping: each line without its
\* surrounding whitespace and without its leading run of list markers.
StrippedLines(text) ==
    LET lines == split(text, "\n")
    IN  [i \in 1..Len(lines) |-> re_sub_list_marker(strip(lines[i]))]

FirstN(seq, n) == SubSeq(seq, 1, Min2(n, Len(seq)))

LongEnough(line) == Len(line) >= 10

\* C11: differential_diagnoses holds at most 3 entries in input order: the
\* first three lines of the differential section that have at least 10
\* characters after stripping the leading list markers (a stripped line of
\* exactly 10 characters is kept, one of 9 is dropped).
C11_DifferentialsKept ==
    (arg.fn = "_extract_differentials" /\ ret # <<>>) =>
        ret[1] = Return(FirstN(SelectSeq(StrippedLines(arg.input), LongEnough), 3))

NonEmpty(line) == line # <<>>

T_three_findings ==
    <<"1","."," ","F","i","n","d","i","n","g"," ","A","\n",
      "-"," ","F","i","n","d","i","n","g"," ","B","\n",
      "*"," ","F","i","n","d","i","n","g"," ","C","\n","\n">>

T_Finding_A == <<"F","i","n","d","i","n","g"," ","A">>
T_Finding_B == <<"F","i","n","d","i","n","g"," ","B">>
T_Finding_C == <<"F","i","n","d","i","n","g"," ","C">>

\* C12: for any text block the bullet extractor strips the leading run of
\* list markers from each line, drops the lines that are empty after
\* stripping and returns the first 5 surviving lines in their original
\* order, so never more than 5; on "1. Finding A\n- Finding B\n* Finding C\n\n"
\* it returns ["Finding A", "Finding B", "Finding C"].
C12_BulletExtraction ==
    (arg.fn = "_extract_key_findings" /\ ret # <<>>) =>
        /\ ret[1] = Return(FirstN(SelectSeq(StrippedLines(arg.input), NonEmpty), 5))
        /\ Len(ret[1].value) <= 5
        /\ arg.input = T_three_findings =>
              ret[1] = Return(<<T_Finding_A, T_Finding_B, T_Finding_C>>)

T_DIFFERENTIAL_DIAGNOSIS ==
    <<"D","I","F","F","E","R","E","N","T","I","A","L"," ","D","I","A","G","N","O","S","I","S">>

\* The number of entries of seq equal to x
Occurrences(x, seq) == Cardinality({k \in DOMAIN seq : seq[k] = x})

\* A line of text: a line that is not blank
IsText(line) == strip(line) # <<>>

\* The positions of the two lines that directly follow a line for which
\* IsHeader holds, where IsLine holds for both of them.
Following(lines, IsHeader(_), IsLine(_)) ==
    UNION {{i + 1, i + 2} :
              i \in {h \in DOMAIN lines :
                        /\ h + 2 <= Len(lines)
                        /\ IsHeader(lines[h])
                        /\ IsLine(lines[h + 1]) /\ IsLine(lines[h + 2])}}

\* The lines at the positions js are stored in differential_diagnosis, and
\* in the other sections there are no more copies of them than the
\* remaining lines of the input account for.
StoredInDifferential(lines, js, sections) ==
    \E stored \in {[section \in SectionKeys |-> split(sections[section], "\n")]} :
        \A j \in js :
            \E line \in {strip(lines[j])} :
                LET same(among) == Cardinality({k \in among : strip(lines[k]) = line})
                IN  /\ Occurrences(line, stored["differential_diagnosis"]) >= same(js)
                    /\ \A other \in SectionKeys \ {"differential_diagnosis"} :
                          Occurrences(line, stored[other]) <= same(DOMAIN lines \ js)

ContainsDifferentialDiagnosis(line) == In(T_DIFFERENTIAL_DIAGNOSIS, line)

\* A line with "DIFFERENTIAL DIAGNOSIS" and no marker of the two sections
\* tested before it; a line of text that passes no header test.
IsDifferentialHeader(line) ==
    ContainsDifferentialDiagnosis(line) /\ MinOf(HeaderHits(strip(line))) = 3

IsContent(line) == strip(line) # <<>> /\ HeaderHits(strip(line)) = {}

FollowingContent(lines) == Following(lines, IsDifferentialHeader, IsContent)

\* C13 as stated: when a line containing "DIFFERENTIAL DIAGNOSIS" is
\* followed by two lines of text, both following lines are appended to the
\* differential_diagnosis section and to no other section, whatever section
\* was current before the header line.
C13_AfterDifferentialHeader ==
    (arg.fn = "_parse_analysis_response" /\ ret # <<>>) =>
        \E lines \in {split(arg.input, "\n")} :
            \E js \in {Following(lines, ContainsDifferentialDiagnosis, IsText)} :
                StoredInDifferential(lines, js, ret[1].value)

\* C13, amended: when a line containing "DIFFERENTIAL DIAGNOSIS" and no
\* marker of the visual or the anatomical section is followed by two lines
\* of text that contain no header marker, both following lines are appended
\* to differential_diagnosis and to no other section, whatever section was
\* current before the header line.
C13_AfterPlainDifferentialHeader ==
    (arg.fn = "_parse_analysis_response" /\ ret # <<>>) =>
        \E lines \in {split(arg.input, "\n")} :
            /\ ret[1].raised = "none"
            /\ \E js \in {FollowingContent(lines)} :
                  StoredInDifferential(lines, js, ret[1].value)

\* The header comes after a header of another section and two lines of
\* content follow it.
C13_Witness ==
    /\ arg.fn = "_parse_analysis_response" /\ ret # <<>>
    /\ \E lines \in {split(arg.input, "\n")} :
          \E i \in DOMAIN lines :
              /\ i > 1 /\ 4 \in HeaderHits(strip(lines[i - 1]))
              /\ IsDifferentialHeader(lines[i])
              /\ {i + 1, i + 2} \subseteq FollowingContent(lines)

AllowedFormats == {"JPEG", "PNG"}

\* C14: image validation returns pass exactly when the file decodes as an
\* image, its width and height are both in [100, 4096] and its format is in
\* the allowed set (JPEG, PNG); otherwise it returns fail.
C14_ValidationPasses ==
    (arg.fn = "validate_medical_image" /\ ret # <<>>) =>
        \E img \in {Files[arg.input]} :
            ret[1] = Return(/\ img.decodes
                            /\ img.width \in MinImageSide..MaxImageSide
                            /\ img.height \in MinImageSide..MaxImageSide
                            /\ img.format \in AllowedFormats)

T_chest_xray == <<"c","h","e","s","t"," ","x","-","r","a","y">>

\* The stub returns a text for every stage, the analysis text names a chest
\* X-ray, and the image is valid.
StubNamesChestXray ==
    /\ \A n \in Nodes : arg[n].ok
    /\ In(T_chest_xray, lower(arg["ImageAnalysis"].text))
    /\ validate_medical_image(state["image_path"])

\* C15: end to end with a service that returns a fixed text per stage, a
\* valid image and an analysis text that names a chest X-ray, the run
\* comes to an end and returns a state: no exception leaves it, and in the
\* returned state
\* image_findings.modality is "x-ray", image_findings.anatomical_region is
\* "chest", reasoning and critique are the texts returned to Reasoning and
\* Critique and final_report is the text returned to Report.
C15_EndToEnd ==
    StubNamesChestXray =>
        /\ run_status # "raised"
        /\ run_status = "returned" =>
              /\ state["image_findings"]["modality"] = V_xray
              /\ state["image_findings"]["anatomical_region"] = V_chest
              /\ state["reasoning"] = arg["Reasoning"].text
              /\ state["critique"] = arg["Critique"].text
              /\ state["final_report"] = arg["Report"].text

\* What run_medilens_pipeline gives for these inputs when the run is the only
\* one and its llm is the stub: the exception that leaves it, or the
\* returned state.
RunAlone(inputs, stub) ==
    IF ~validate_medical_image(inputs["image_path"])
    THEN [run_status |-> "raised", raised |-> "ValueError", state |-> inputs]
    ELSE CHOOSE end \in
            {IF findings.raised # "none"
             THEN [run_status |-> "raised", raised |-> findings.raised, state |-> inputs]
             ELSE [run_status |-> "returned", raised |-> "none",
                   state |-> [k \in InputKeys \cup StageFields |->
                       CASE k = "image_findings" -> findings.value
                         [] k = "reasoning" ->
                              NodeOutput(AgentResult(stub["Reasoning"], "diagnostic_reasoning"),
                                         "diagnostic_reasoning")
                         [] k = "critique" ->
                              NodeOutput(AgentResult(stub["Critique"], "critique"), "critique")
                         [] k = "final_report" ->
                              NodeOutput(AgentResult(stub["Report"], "final_report"),
                                         "final_report")
                         [] OTHER -> inputs[k]]] :
                findings \in {get_structured_findings(
                                 analyze_image_result(stub["ImageAnalysis"],
                                                      inputs["image_path"],
                                                      inputs["clinical_query"]))}} : TRUE

\* A run is where it would be if it were the only one: its state holds
\* nothing but what the run alone writes, and when it has ended it has ended
\* as the run alone does, with the same state.
AsAlone(run) ==
    \E alone \in {RunAlone([k \in InputKeys |-> run.state[k]], run.arg)} :
        /\ \A k \in DOMAIN run.state :
              k \in DOMAIN alone.state /\ run.state[k] = alone.state[k]
        /\ run.run_status \in {"returned", "raised"} =>
              /\ run.run_status = alone.run_status
              /\ run.raised = alone.raised
              /\ run.state = alone.state

\* A step of one run leaves the other run as it is, and handing over from
\* one run to the other changes neither.
OtherRunUntouched ==
    IF Loaded' = peer THEN peer' = Loaded ELSE peer' = peer

\* C16: concurrent pipeline runs are independent: when two runs over
\* distinct state dicts are interleaved in any order, each run ends as it
\* does when it runs alone with the same inputs and the same inference
\* responses, with the same final state, and no write of one run is ever
\* visible in the state of the other.  (The run that waits is as its own
\* last step left it, so it is enough to look at the run that executes.)
C16_RunsIndependent ==
    /\ []AsAlone(Loaded)
    /\ [][OtherRunUntouched]_vars

\* Both runs have made inference calls, one has returned and the other is
\* still between two of its nodes.
C16_Witness ==
    /\ DOMAIN peer # {}
    /\ run_status = "returned"
    /\ peer.run_status = "running"
    /\ Len(peer.calls) >= 2
    /\ peer.arg # arg

\* The sections a header can select, in the order of their priority.
PriorityOrder ==
    <<"visual_findings", "anatomical_assessment", "differential_diagnosis",
      "technical_quality", "recommendations">>

MarkersOf(section) ==
    UNION {SectionHeaders[h].markers :
              h \in {i \in DOMAIN SectionHeaders : SectionHeaders[i].section = section}}

\* The priorities of the sections of which the line contains a marker.
Marked(line) ==
    CHOOSE hits \in
        {{p \in DOMAIN PriorityOrder : \E m \in MarkersOf(PriorityOrder[p]) : In(m, u)} :
            u \in {upper(line)}} : TRUE

MaxOf(S) == CHOOSE m \in S : \A n \in S : m >= n

\* What each line is to the classifier: "blank", "content", or for a header
\* the section it selects, the one of highest priority among those marked.
RECURSIVE LineKinds(_, _)
LineKinds(lines, j) ==
    IF j > Len(lines) THEN <<>>
    ELSE << CHOOSE kind \in
               {IF ~IsText(lines[j]) THEN "blank"
                ELSE IF marked = {} THEN "content"
                ELSE PriorityOrder[MinOf(marked)] : marked \in {Marked(lines[j])}} : TRUE >>
         \o LineKinds(lines, j + 1)

\* The section the cursor is at when line j is read: the section of the last
\* header line before it, and visual_findings if there is none.
CursorAt(kinds, j) ==
    LET headers == {i \in 1..(j - 1) : kinds[i] \notin {"blank", "content"}}
    IN  IF headers = {} THEN "visual_findings" ELSE kinds[MaxOf(headers)]

\* The lines to be found in a section: the lines of content read with the
\* cursor at it, stripped, in their order.
RECURSIVE StoredLines(_, _, _, _)
StoredLines(lines, kinds, j, section) ==
    IF j > Len(lines) THEN <<>>
    ELSE (IF kinds[j] = "content" /\ CursorAt(kinds, j) = section
          THEN <<strip(lines[j])>> ELSE <<>>) \o StoredLines(lines, kinds, j + 1, section)

\* C17: in the section classifier the cursor starts at visual_findings, so
\* the lines before any header accumulate there; a line whose upper-cased
\* form contains a header marker switches the cursor and is itself stored in
\* no section; when a line contains markers of several sections, the section
\* earliest in the priority order (visual analysis, morphological or
\* assessment, differential, technical, recommend) wins.
C17_CursorAndPriority ==
    (arg.fn = "_parse_analysis_response" /\ ret # <<>>) =>
        \E lines \in {split(arg.input, "\n")} :
            \E kinds \in {LineKinds(lines, 1)} :
                ret[1] = Return([section \in SectionKeys |->
                                    join(<<"\n">>, StoredLines(lines, kinds, 1, section))])

\* A text that starts with a line of content, has a header line with markers
\* of two sections that moves the cursor away from a third section, and has
\* content after it.
C17_Witness ==
    /\ arg.fn = "_parse_analysis_response" /\ ret # <<>>
    /\ \E lines \in {split(arg.input, "\n")} :
          \E kinds \in {LineKinds(lines, 1)} :
              /\ kinds[1] = "content"
              /\ \E i \in DOMAIN lines :
                    /\ Cardinality(Marked(lines[i])) >= 2
                    /\ CursorAt(kinds, i) \notin {PriorityOrder[p] : p \in Marked(lines[i])}
                    /\ i < Len(lines) /\ kinds[i + 1] = "content"
              /\ ret[1].value["visual_findings"] # <<>>

\* value is the first term of the list that occurs in the text, or the
\* sentinel if none does.
IsFirstOccurring(value, terms, text, sentinel) ==
    /\ value \in {terms[i] : i \in DOMAIN terms} \cup {sentinel}
    /\ \A i \in DOMAIN terms :
          value = terms[i] => In(terms[i], text) /\ \A k \in 1..(i - 1) : ~In(terms[k], text)
    /\ value = sentinel => \A i \in DOMAIN terms : ~In(terms[i], text)

\* C18: the modality and the anatomical-region extractor return the first
\* term of their vocabulary, in list order and not in order of appearance
\* in the text, that occurs as a substring of the lowercased text, and the
\* sentinel "unknown" or "unspecified" when no term occurs; the result is
\* always a member of the closed enumeration.
C18_FirstVocabularyTerm ==
    /\ (arg.fn = "_extract_modality" /\ ret # <<>>) =>
          /\ ret[1].raised = "none"
          /\ \E text \in {lower(arg.input)} :
                IsFirstOccurring(ret[1].value, modalities, text, V_unknown)
    /\ (arg.fn = "_extract_anatomical_region" /\ ret # <<>>) =>
          /\ ret[1].raised = "none"
          /\ \E text \in {lower(arg.input)} :
                IsFirstOccurring(ret[1].value, regions, text, V_unspecified)

\* The text starts with one region and names a second one later, which is
\* returned as it comes first in the list.
C18_Witness ==
    /\ arg.fn = "_extract_anatomical_region" /\ ret # <<>>
    /\ ret[1] = Return(V_head)
    /\ \E text \in {lower(arg.input)} : startswith(text, V_neck) /\ In(V_head, text)

\* The quality levels in the order of their priority.
LevelOrder == <<Q_excellent, Q_good, Q_fair, Q_poor>>

KeywordsOf(level) ==
    UNION {quality_indicators[i].keywords :
              i \in {k \in DOMAIN quality_indicators : quality_indicators[k].quality = level}}

HasKeywordOf(level, text) == \E keyword \in KeywordsOf(level) : In(keyword, text)

T_optimal_image == <<"o","p","t","i","m","a","l"," ","i","m","a","g","e">>

\* C19: the quality classifier checks the levels in the order excellent,
\* good, fair, poor and returns the first level one of whose keywords is a
\* substring of the lowercased technical-quality text, else "not assessed";
\* a text containing "optimal image" gives "excellent" and a text
\* containing no keyword gives "not assessed".
C19_QualityPriority ==
    (arg.fn = "_assess_image_quality" /\ ret # <<>>) =>
        /\ ret[1].raised = "none"
        /\ \E text \in {lower(arg.input)}, quality \in {ret[1].value} :
              /\ quality \in {LevelOrder[i] : i \in DOMAIN LevelOrder} \cup {Q_not_assessed}
              /\ \A i \in DOMAIN LevelOrder :
                    quality = LevelOrder[i] =>
                        /\ HasKeywordOf(LevelOrder[i], text)
                        /\ \A k \in 1..(i - 1) : ~HasKeywordOf(LevelOrder[k], text)
              /\ quality = Q_not_assessed =>
                    \A i \in DOMAIN LevelOrder : ~HasKeywordOf(LevelOrder[i], text)
              /\ In(T_optimal_image, text) => quality = Q_excellent

\* A text with "optimal image" after a line that holds keywords of the
\* levels good and poor.
C19_Witness ==
    /\ arg.fn = "_assess_image_quality" /\ ret # <<>>
    /\ ret[1] = Return(Q_excellent)
    /\ \E text \in {lower(arg.input)} :
          /\ In(T_optimal_image, text)
          /\ startswith(text, Q_good)
          /\ In(Q_poor, text)

\* C20: the section classifier never writes to the abnormal_findings
\* section, as no header marker selects it, so in every reachable state of a
\* pipeline run in which image_findings has a key_findings field,
\* key_findings is the empty sequence, whatever text the analysis call
\* returned.
C20_KeyFindingsEmpty ==
    /\ \A h \in DOMAIN SectionHeaders : SectionHeaders[h].section # "abnormal_findings"
    /\ (frame["ImageAnalysis"].at = "result"
           /\ frame["ImageAnalysis"].result.status = "success") =>
          frame["ImageAnalysis"].result.analysis["abnormal_findings"] = <<>>
    /\ ("image_findings" \in DOMAIN state
           /\ "key_findings" \in DOMAIN state["image_findings"]) =>
          state["image_findings"]["key_findings"] = <<>>

\* image_findings was built from an analysis text with a header line and
\* content in the section it selects.
C20_Witness ==
    /\ "image_findings" \in DOMAIN state
    /\ "key_findings" \in DOMAIN state["image_findings"]
    /\ state["image_findings"]["image_quality"] = Q_excellent

\* sub can be had from seq by leaving entries out.
RECURSIVE IsSubsequence(_, _)
IsSubsequence(sub, seq) ==
    IF sub = <<>> THEN TRUE
    ELSE IF seq = <<>> THEN FALSE
    ELSE IF sub[1] = seq[1] THEN IsSubsequence(Tail(sub), Tail(seq))
    ELSE IsSubsequence(sub, Tail(seq))

\* The lines of a section value; an empty value has none.
LinesOf(value) == IF value = <<>> THEN <<>> ELSE split(value, "\n")

\* The stripped input lines, each with what it is to the classifier.
RECURSIVE StrippedWithKind(_, _)
StrippedWithKind(lines, j) ==
    IF j > Len(lines) THEN <<>>
    ELSE << CHOOSE entry \in
               {[line |-> line,
                 kind |-> IF line = <<>> THEN "blank"
                          ELSE IF \E m \in UNION {SectionHeaders[h].markers :
                                                     h \in DOMAIN SectionHeaders} :
                                      In(m, up)
                               THEN "header" ELSE "content"] :
                    line \in {strip(lines[j])}, up \in {upper(strip(lines[j]))}} : TRUE >>
         \o StrippedWithKind(lines, j + 1)

IsContentEntry(entry) == entry.kind = "content"

\* C21: the section classifier conserves lines: every non-blank input line
\* is either discarded as a header (it contains a marker) or appears,
\* stripped, in exactly one of the six output sections, and within each
\* section the lines keep their input order; the output always has exactly
\* the six section keys, each value with no leading or trailing whitespace.
C21_LinesConserved ==
    (arg.fn = "_parse_analysis_response" /\ ret # <<>>) =>
        /\ ret[1].raised = "none"
        /\ DOMAIN ret[1].value = SectionKeys
        /\ \A section \in SectionKeys : strip(ret[1].value[section]) = ret[1].value[section]
        /\ \E entries \in {StrippedWithKind(split(arg.input, "\n"), 1)},
              stored \in {[section \in SectionKeys |-> LinesOf(ret[1].value[section])]} :
              \E content \in {SelectSeq(entries, IsContentEntry)},
                 everywhere \in {stored["visual_findings"] \o stored["anatomical_assessment"]
                                   \o stored["abnormal_findings"]
                                   \o stored["differential_diagnosis"]
                                   \o stored["technical_quality"] \o stored["recommendations"]} :
                  /\ \A k \in DOMAIN entries :
                        CASE entries[k].kind = "content" ->
                               Occurrences(entries[k].line, everywhere) =
                                   Cardinality({i \in DOMAIN content :
                                                   content[i].line = entries[k].line})
                          [] entries[k].kind = "header" ->
                               Occurrences(entries[k].line, everywhere) = 0
                          [] OTHER -> TRUE
                  /\ Len(everywhere) = Len(content)
                  /\ \A section \in SectionKeys :
                        IsSubsequence(stored[section], [i \in DOMAIN content |-> content[i].line])

\* A text with a blank line, a header line and content both before and
\* after the header, stored in two sections.
C21_Witness ==
    /\ arg.fn = "_parse_analysis_response" /\ ret # <<>>
    /\ ret[1].value["visual_findings"] # <<>>
    /\ Len(LinesOf(ret[1].value["differential_diagnosis"])) >= 2
    /\ \E lines \in {split(arg.input, "\n")} :
          /\ \E j \in DOMAIN lines : lines[j] = <<>> /\ j < Len(lines)
          /\ \E j \in DOMAIN lines : lines[j] # strip(lines[j])

\* C22: as the quality keywords are matched as substrings in the order
\* excellent, good, fair, poor, the classifier never returns "poor" for a
\* text containing "suboptimal": it contains the excellent keyword
\* "optimal" and is classified "excellent"; "poor" is returned only when no
\* keyword of excellent, good or fair occurs anywhere in the text.
C22_SuboptimalIsExcellent ==
    (arg.fn = "_assess_image_quality" /\ ret # <<>>) =>
        \E text \in {lower(arg.input)} :
            /\ In(Q_suboptimal, text) => In(Q_optimal, text) /\ ret[1] = Return(Q_excellent)
            /\ ret[1] = Return(Q_poor) =>
                  \A keyword \in {Q_excellent, Q_optimal, Q_high_quality,
                                  Q_good, Q_adequate, Q_satisfactory,
                                  Q_fair, Q_moderate, Q_acceptable} : ~In(keyword, text)

\* A text with "suboptimal" after a line with two keywords of the level
\* poor.
C22_Witness ==
    /\ arg.fn = "_assess_image_quality" /\ ret # <<>>
    /\ ret[1] = Return(Q_excellent)
    /\ \E text \in {lower(arg.input)} :
          /\ startswith(text, Q_degraded)
          /\ In(Q_poor, text)
          /\ In(Q_suboptimal, text)

\* A text for which "poor" is returned.
C22_PoorReturned ==
    /\ arg.fn = "_assess_image_quality" /\ ret # <<>>
    /\ ret[1] = Return(Q_poor)

\* The image_path of every report the batch has written, in the order of writing
SavedImages == [i \in DOMAIN batch.saved |-> batch.saved[i].image_path]

\* The files among the first k paths of the folder, in the folder's order
FilesAmong(k) == SelectSeq(SubSeq(batch.images, 1, k), os_path_isfile)

\* In every state of a batch: the runs started so far are the files of the
\* folder up to the position of the loop, in the folder's order; the reports
\* written are those of the started images in the same order, all of them
\* while the loop is between two images and all but the last one while a run
\* is under way, has returned without its report being written yet, or has
\* raised; the run under way is the run of the last image started.
C23_OneAfterAnother ==
    DOMAIN batch # {} =>
        /\ batch.at \in 1..(Len(batch.images) + 1)
        /\ IF run_status = "idle"
           THEN /\ batch.started = FilesAmong(batch.at - 1)
                /\ SavedImages = batch.started
           ELSE /\ batch.at <= Len(batch.images)
                /\ batch.started = FilesAmong(batch.at)
                /\ batch.started # <<>>
                /\ batch.images[batch.at] = batch.started[Len(batch.started)]
                /\ state["image_path"] = batch.images[batch.at]
                /\ SavedImages = SubSeq(batch.started, 1, Len(batch.started) - 1)

\* In every step of a batch: a run is started only while no other run is
\* under way or has raised, and it starts from a state holding the three
\* inputs only, with no node run and no call made; a report is written only
\* for a run that returned, for that run's image and with that run's
\* final_report; once a run has raised, no run is started, no report is
\* written and the loop does not move.
C23_FreshRunsAndNoRecovery ==
    DOMAIN batch # {} =>
        /\ batch'.started # batch.started =>
              /\ run_status = "idle"
              /\ run_status' = "running"
              /\ DOMAIN state' = InputKeys
              /\ state'["image_path"] = batch.images[batch.at]
              /\ \A n \in Nodes : runs'[n] = 0 /\ node_status'[n] = "idle"
              /\ calls' = <<>>
              /\ frontier' = {entry_point}
        /\ batch'.saved # batch.saved =>
              /\ run_status = "returned"
              /\ batch'.saved = Append(batch.saved,
                                       [image_path |-> batch.images[batch.at],
                                        report_text |-> state["final_report"]])
        /\ run_status = "raised" => (batch' = batch /\ run_status' = "raised")

\* C23: in the CLI's batch mode the images of a folder are processed strictly
\* one after another, each in a fresh pipeline run, and a report is saved for
\* an image only after its run returned; an error that ends the run of one
\* image is not caught, so no later image of the batch is processed and no
\* report is saved for it.
C23_BatchMode == []C23_OneAfterAnother /\ [][C23_FreshRunsAndNoRecovery]_vars

\* A batch whose first image gave a report, whose second image failed
\* validation, and which has a further file left that is never processed.
C23_Witness ==
    /\ DOMAIN batch # {}
    /\ run_status = "raised"
    /\ raised = "ValueError"
    /\ Len(batch.saved) >= 1
    /\ batch.at < Len(batch.images)
    /\ os_path_isfile(batch.images[batch.at + 1])

====
